---- MODULE Spec2Model ----
(***************************************************************************)
(* Model of the terminal media browser of src/src/run.js (classes         *)
(* TerminalGUI and ImageGallerySlider): the directory listing, the         *)
(* selection / scroll state machine of the list and grid views, the        *)
(* activation debouncer, the input handlers, and the gallery with its key  *)
(* handler, its resize handler and its decodes.                            *)
(*                                                                         *)
(* Conventions.  Sequences are 1-based, the program's arrays 0-based:      *)
(* FileAt(fs, i) is the program's files[i].  A path is the sequence of its *)
(* components, <<>> being the filesystem root.  Time is in milliseconds.   *)
(***************************************************************************)
EXTENDS Integers, Sequences, FiniteSets, TLC

VARIABLES
    currentDirectory,   \* this.currentDirectory
    files,              \* this.files (the entries)
    selectedIndex,      \* this.selectedIndex
    scrollOffset,       \* this.scrollOffset
    viewMode,           \* this.viewMode: "grid" or "list"
    scrollMode,         \* this.scrollMode
    terminalWidth,      \* this.terminalWidth
    terminalHeight,     \* this.terminalHeight
    maxDisplayLines,    \* this.maxDisplayLines
    sinceLastClick,     \* Date.now() - this.lastClickTime, saturated at
                        \* doubleClickThreshold (all the program reads of both)
    lastClickTarget,    \* this.lastClickTarget
    activeGallery,      \* this.activeGallery
    stdinHandler,       \* whose 'data' listener process.stdin carries
    pendingClicks,      \* mouse handlers suspended in their first render
    running,            \* FALSE once the process has exited or crashed
    lastError,          \* outcome of the last handler: none, reported, uncaught
    world,              \* the machine: what its directories may list, the
                        \* sizes its terminal may take (never changes)
    slider,             \* the ImageGallerySlider object last constructed:
                        \* its fields and its suspended showCurrentImage calls
    resizeBurst,        \* the resize notifications of the burst under way:
                        \* their age and number, the renders they caused,
                        \* the resizeTimer of start.js and its relayouts
    thumbnailCache,     \* this.thumbnailCache: path -> thumbnail
    thumbnailCalls,     \* the generateThumbnail calls: those suspended in
                        \* their decode, and per path the decodes that
                        \* resolved and the thumbnails handed to the callers
    compositor,         \* a call of Generator.imageToData: the raw image
                        \* it was given, the cells it returned and the rows
                        \* of the image it indexed
    terminal            \* the modes of the terminal as the program's writes
                        \* and setRawMode calls have left them: raw mode,
                        \* mouse reporting (1000 and 1002), the cursor

vars == << currentDirectory, files, selectedIndex, scrollOffset, viewMode,
           scrollMode, terminalWidth, terminalHeight, maxDisplayLines,
           sinceLastClick, lastClickTarget, activeGallery, stdinHandler,
           pendingClicks, running, lastError, world, slider, resizeBurst,
           thumbnailCache, thumbnailCalls, compositor, terminal >>

\* what only the specifications of the resize bursts and of the thumbnails
\* follow
extras == << resizeBurst, thumbnailCache, thumbnailCalls, compositor, terminal >>

-----------------------------------------------------------------------------
(* Bounds of the model *)

\* mouse handlers that may be suspended at once
MaxPending == 1
\* the step of the clock, in milliseconds
TickStep == 250
\* calls of the gallery's resize handler that may be suspended at once
MaxResizeCalls == 1
\* generateThumbnail calls that may be suspended at once
MaxThumbnailCalls == 2
\* pixels of the raw images imageToData is given (besides the wide one)
MaxPixels == 6
\* resize notifications of one burst the model follows
MaxBurst == 3
\* the step of the clock within a burst, in milliseconds
BurstTickStep == 25

-----------------------------------------------------------------------------
(* Program constants *)

doubleClickThreshold == 500
gapWidth == 2
minImageWidth == 32
minOtherWidth == 20
tripleItemHeight == 19
normalItemHeight == 17
tripleTextArea == 500
hitItemHeight == 17
minTerminalWidth == 40
minTerminalHeight == 15
defaultColumns == 80
defaultRows == 24
footerLines == 5
galleryFooterLines == 6
resizeDebounce == 50
\* generate.js: the cells imageToData returns at most, the alpha from which
\* a pixel counts as opaque, the alpha of a pixel of an image without alpha
maxCells == 100000
opaqueThreshold == 128
opaqueAlpha == 255

SUPPORTED_EXTENSIONS ==
    {".jpg", ".jpeg", ".png", ".gif", ".bmp", ".webp", ".tiff", ".tga", ".svg"}

-----------------------------------------------------------------------------
(* Arithmetic of the program *)

Min(a, b) == IF a < b THEN a ELSE b
Max(a, b) == IF a > b THEN a ELSE b
\* Math.ceil(a / b) for a >= 0, b > 0
CeilDiv(a, b) == (a + b - 1) \div b

-----------------------------------------------------------------------------
(* The environment: the clock, the terminal, the filesystem *)


NoTarget == << "null" >>
NoGallery == [phase |-> "none"]
\* no ImageGallerySlider has been constructed
NoSlider == [constructed |-> FALSE]
\* new Map(), and Map.prototype.get with a default for an absent key
EmptyMap == << >>
MapGet(map, key, default) == IF key \in DOMAIN map THEN map[key] ELSE default
\* no generateThumbnail has been called
NoCalls == [pending |-> << >>, resolved |-> EmptyMap, returned |-> EmptyMap]
\* imageToData has not been called
NoPixels == [called |-> FALSE]
\* no resize has been notified for longer than the debounce delay
NoBurst == [age |-> resizeDebounce, events |-> 0, renders |-> 0, timer |-> FALSE,
            relayouts |-> 0]

RawDir(n) == [name |-> n, isDir |-> TRUE]
RawFile(n) == [name |-> n, isDir |-> FALSE]

\* path.extname of the names of the model's filesystem
ExtName(name) ==
    CASE name = "a.png" -> ".png"
      [] name = "B.jpg" -> ".jpg"
      [] name = "b.txt" -> ".txt"
      [] name = "c.gif" -> ".gif"
      [] name = "d.bmp" -> ".bmp"
      [] name = "e.webp" -> ".webp"
      [] name = "f.tiff" -> ".tiff"
      [] name = "g.tga" -> ".tga"
      [] name = "h.svg" -> ".svg"
      [] name = "i.jpeg" -> ".jpeg"
      [] name = "j.PNG" -> ".PNG"
      [] name = "k.jpg" -> ".jpg"
      [] OTHER -> ""

\* String.prototype.toLowerCase on the extensions above
ToLowerCase(ext) == IF ext = ".PNG" THEN ".png" ELSE ext

\* the collation order String.prototype.localeCompare gives the names above
\* (letters compare case-insensitively first)
CollationKey(name) ==
    CASE name = "a.png" -> 1
      [] name = "B.jpg" -> 2
      [] name = "b.txt" -> 3
      [] name = "c.gif" -> 4
      [] name = "d.bmp" -> 5
      [] name = "e.webp" -> 6
      [] name = "f.tiff" -> 7
      [] name = "g.tga" -> 8
      [] name = "h.svg" -> 9
      [] name = "i.jpeg" -> 10
      [] name = "j.PNG" -> 11
      [] name = "k.jpg" -> 12
      [] name = "Sub" -> 13
      [] OTHER -> 14

LocaleCompare(a, b) ==
    IF CollationKey(a) < CollationKey(b) THEN -1
    ELSE IF CollationKey(a) > CollationKey(b) THEN 1 ELSE 0

\* what fs.readdirSync may return for a directory (in directory order)
ListingScenario == << RawFile("b.txt"), RawFile("a.png"), RawDir("Sub") >>
ListingTen ==
    << RawFile("j.PNG"), RawFile("c.gif"), RawFile("a.png"), RawFile("B.jpg"),
       RawFile("i.jpeg"), RawFile("d.bmp"), RawFile("h.svg"), RawFile("e.webp"),
       RawFile("g.tga"), RawFile("f.tiff") >>
ListingTwelve ==
    << RawFile("k.jpg"), RawFile("b.txt") >> \o ListingTen \o << RawDir("Sub") >>
ListingThree ==
    << RawFile("B.jpg"), RawDir("Sub"), RawFile("b.txt"), RawFile("a.png") >>

ListingFiles == << RawFile("b.txt"), RawFile("a.png") >>
ListingText == << RawFile("b.txt") >>

\* Two machines.  tree gives, for each directory, what readdirSync may
\* return for it at different times.  Sizes are what process.stdout reports
\* (0 would stand for an undefined size); the constructor and the resize
\* listener raise them to the minimum.  xs and ys are the cells the mouse
\* reports clicks at.
SmallWorld ==
    [tree |-> ( << >> :> { << >>, ListingThree } @@
                << "Sub" >> :> { ListingText } ),
     columns |-> {70}, rows |-> {24},
     xs |-> {1, 40}, ys |-> {1, 2, 3, 18}]
LargeWorld ==
    [tree |-> ( << >> :> { << >>, ListingScenario, ListingTen, ListingTwelve } @@
                << "Sub" >> :> { << >>, ListingFiles, ListingTen } ),
     columns |-> {30, 70, 138}, rows |-> {10, 24, 43},
     xs |-> {1, 40, 70, 110}, ys |-> {1, 2, 3, 18, 50}]

\* a path that is no directory of the machine only fails to list
ListingsOf(dir) == IF dir \in DOMAIN world.tree THEN world.tree[dir] ELSE {}

\* a listing of dir, or the failure of readdirSync / statSync
ListingOutcomes(dir) ==
    [ok : {TRUE}, list : ListingsOf(dir)] \cup { [ok |-> FALSE, list |-> << >>] }

-----------------------------------------------------------------------------
(* TerminalGUI.isMediaFile, getMediaFiles *)

isMediaFile(filename) == ToLowerCase(ExtName(filename)) \in SUPPORTED_EXTENSIONS

\* path.join(dir, name) and path.dirname(p)
PathJoin(dir, name) == Append(dir, name)
PathDirname(p) == IF Len(p) = 0 THEN p ELSE SubSeq(p, 1, Len(p) - 1)

\* a comparator that looks at the names alone
CompareItemsByName(a, b) == LocaleCompare(a.name, b.name)

\* the comparator given to items.sort
CompareItems(a, b) ==
    IF a.type # b.type
    THEN (IF a.type = "directory" THEN -1 ELSE 1)
    ELSE LocaleCompare(a.name, b.name)

RECURSIVE InsertItem(_, _)
InsertItem(sorted, item) ==
    IF sorted = << >> THEN << item >>
    ELSE IF CompareItems(item, Head(sorted)) < 0 THEN << item >> \o sorted
    ELSE << Head(sorted) >> \o InsertItem(Tail(sorted), item)

RECURSIVE SortItems(_)
SortItems(items) ==
    IF items = << >> THEN << >>
    ELSE InsertItem(SortItems(SubSeq(items, 1, Len(items) - 1)), items[Len(items)])

\* the loop of getMediaFiles over the raw listing
RECURSIVE CollectItems(_, _)
CollectItems(dir, raw) ==
    IF raw = << >> THEN << >>
    ELSE LET file == Head(raw)
             rest == CollectItems(dir, Tail(raw))
         IN  IF file.isDir
             THEN << [name |-> file.name, path |-> PathJoin(dir, file.name),
                      type |-> "directory", extension |-> ""] >> \o rest
             ELSE IF isMediaFile(file.name)
             THEN << [name |-> file.name, path |-> PathJoin(dir, file.name),
                      type |-> "file",
                      extension |-> ToLowerCase(ExtName(file.name))] >> \o rest
             ELSE rest

getMediaFiles(dir, outcome) ==
    IF ~outcome.ok THEN << >>
    ELSE SortItems(CollectItems(dir, outcome.list))

\* files[i] of the program (0-based); undefined outside the array
Undefined == [type |-> "undefined"]
FileAt(fs, i) == IF i >= 0 /\ i < Len(fs) THEN fs[i + 1] ELSE Undefined


-----------------------------------------------------------------------------
(* Layout: calculateGridDimensions and the scroll bounds of the grid *)

\* a layout that would forget the gap between the tiles
calculateGridDimensionsNoGap(w, n) ==
    LET actualColumns == Max(1, (w - 2) \div minImageWidth)
    IN  [columns |-> actualColumns, rows |-> CeilDiv(n, actualColumns),
         gapWidth |-> gapWidth, itemWidth |-> minImageWidth,
         itemHeight |-> tripleItemHeight]

calculateGridDimensions(w, n) ==
    LET availableWidth == w - 2
        columns == availableWidth \div (minImageWidth + gapWidth)
        actualColumns == Max(1, columns)
        rows == CeilDiv(n, actualColumns)
        useTripleText == (minImageWidth * tripleItemHeight) >= tripleTextArea
        itemHeight == IF useTripleText THEN tripleItemHeight ELSE normalItemHeight
    IN  [columns |-> actualColumns, rows |-> rows, gapWidth |-> gapWidth,
         itemWidth |-> minImageWidth, itemHeight |-> itemHeight]

\* scroll bounds that would count every row of the grid as scrolled out
GridScrollBoundsAllRows(w, mdl, n) ==
    LET d == calculateGridDimensions(w, n)
        maxVisibleRows == mdl \div d.itemHeight
    IN  [columns |-> d.columns, rows |-> d.rows,
         maxVisibleRows |-> maxVisibleRows,
         actualVisibleRows |-> Min(maxVisibleRows, d.rows),
         maxScrollOffset |-> d.rows * d.columns]

\* maxVisibleRows .. maxScrollOffset, as drawGridView, moveSelectionGrid,
\* scrollGrid and handleScrollWheel each compute them
GridScrollBounds(w, mdl, n) ==
    LET d == calculateGridDimensions(w, n)
        maxVisibleRows == mdl \div d.itemHeight
        actualVisibleRows == Min(maxVisibleRows, d.rows)
        maxScrollRows == Max(0, d.rows - actualVisibleRows)
    IN  [columns |-> d.columns, rows |-> d.rows,
         maxVisibleRows |-> maxVisibleRows,
         actualVisibleRows |-> actualVisibleRows,
         maxScrollOffset |-> maxScrollRows * d.columns]

\* drawGridView, lines 575-580: the clamp of scrollOffset
DrawGridViewScroll(off, w, mdl, n) ==
    LET maxScrollOffset == GridScrollBounds(w, mdl, n).maxScrollOffset
        o1 == IF off < 0 THEN 0 ELSE off
    IN  IF o1 > maxScrollOffset THEN maxScrollOffset ELSE o1

\* the indices of files drawGridView reads (its tiles), for a clamped offset
GridViewIndices(off, w, mdl, n) ==
    LET b == GridScrollBounds(w, mdl, n)
    IN  { i \in { row * b.columns + col + off :
                    row \in 0..(b.actualVisibleRows - 1),
                    col \in 0..(b.columns - 1) } : i < n }

\* the indices of files drawListView reads (its lines)
ListViewIndices(off, mdl, n) ==
    LET startIndex == off
        actualDisplayLines == Min(mdl, n - off)
        endIndex == startIndex + actualDisplayLines
    IN  startIndex..(endIndex - 1)

\* render / renderWithClear: what drawFileList does to scrollOffset
RenderScroll(view, off, w, mdl, n) ==
    IF view = "grid" THEN DrawGridViewScroll(off, w, mdl, n) ELSE off

\* the entries a render reads, scrollOffset being what RenderScroll left
RenderIndices(view, off, w, mdl, n) ==
    IF view = "grid" THEN GridViewIndices(off, w, mdl, n)
    ELSE ListViewIndices(off, mdl, n)

\* drawGridView awaits generator.generate for every directory tile, outside
\* any try: a failing decode rejects the render.  (Thumbnails of files go
\* through generateThumbnail, which catches.)
RenderMayThrow(view, off, w, mdl, fs) ==
    /\ view = "grid"
    /\ \E i \in GridViewIndices(off, w, mdl, Len(fs)) :
          FileAt(fs, i).type = "directory"

RenderOutcomes(view, off, w, mdl, fs) ==
    IF RenderMayThrow(view, off, w, mdl, fs) THEN {"none", "uncaught"}
    ELSE {"none"}

\* a render that suspends the handler in a decode (any visible tile)
RenderSuspends(view, off, w, mdl, fs) ==
    /\ view = "grid"
    /\ GridViewIndices(off, w, mdl, Len(fs)) # {}

-----------------------------------------------------------------------------
(* Init: the state once the constructor and start() have run *)

InitialSize(c, r) ==
    [w |-> Max(IF c = 0 THEN defaultColumns ELSE c, minTerminalWidth),
     h |-> Max(IF r = 0 THEN defaultRows ELSE r, minTerminalHeight)]

\* the terminal once start() has returned: the constructor has hidden the
\* cursor (line 251), setupInput has set raw mode and, the program running
\* without --no-mouse, enabled mouse reporting (lines 972-979)
BrowsingModes == [rawMode |-> TRUE, mouseReporting |-> TRUE, cursorVisible |-> FALSE]

InitBrowser(machine) ==
    /\ world = machine
    /\ currentDirectory = << >>
    /\ \E outcome \in ListingOutcomes(currentDirectory) :
          /\ files = getMediaFiles(currentDirectory, outcome)
          /\ lastError = IF outcome.ok THEN "none" ELSE "reported"
    /\ selectedIndex = 0
    /\ scrollOffset = 0
    /\ viewMode = "grid"
    /\ scrollMode \in BOOLEAN
    /\ \E c \in world.columns, r \in world.rows :
          /\ terminalWidth = InitialSize(c, r).w
          /\ terminalHeight = InitialSize(c, r).h
    /\ maxDisplayLines = Max(1, terminalHeight - footerLines)
    /\ sinceLastClick = doubleClickThreshold
    /\ lastClickTarget = NoTarget
    /\ activeGallery = NoGallery
    /\ stdinHandler = "browser"
    /\ pendingClicks = << >>
    /\ running = TRUE
    /\ slider = NoSlider
    /\ resizeBurst = NoBurst
    /\ thumbnailCache = EmptyMap
    /\ thumbnailCalls = NoCalls
    /\ terminal = BrowsingModes

\* the browser alone: imageToData is not under way
InitIn(machine) == InitBrowser(machine) /\ compositor = NoPixels

Init == InitIn(SmallWorld)


-----------------------------------------------------------------------------
(* Handlers.  Each operator below gives the primed values of the browser's *)
(* own fields; the actions add what the event leaves alone.                *)

\* The operators of the handlers assign selectedIndex, scrollOffset,
\* lastError, currentDirectory, files, viewMode, scrollMode and activeGallery;
\* what becomes of the activation intent is said by the handler that owns it.
intentUnchanged == UNCHANGED << sinceLastClick, lastClickTarget >>

\* this.lastClickTime = currentTime;  this.lastClickTime = 0 (Date.now() is
\* far more than the threshold away from 0)
JustClicked == 0
NeverClicked == doubleClickThreshold

\* a rejection raised under handleMouseEvent's try is caught and reported,
\* and the view rendered again (which may reject in its turn)
Errs(ctx, outs) ==
    IF ctx = "mouse" /\ "uncaught" \in outs THEN outs \cup {"reported"} ELSE outs

\* await this.render() with the fields as given
Rendered(ctx, view2, off2, fs2) ==
    /\ scrollOffset' = RenderScroll(view2, off2, terminalWidth, maxDisplayLines, Len(fs2))
    /\ lastError' \in Errs(ctx, RenderOutcomes(view2, scrollOffset', terminalWidth,
                                               maxDisplayLines, fs2))

\* a handler that returns having changed nothing but sel / off
Returns(sel, off, err) ==
    /\ selectedIndex' = sel
    /\ scrollOffset' = off
    /\ lastError' = err
    /\ UNCHANGED << currentDirectory, files, viewMode, scrollMode,
                    activeGallery >>

\* a TypeError on an undefined entry: uncaught, or caught by handleMouseEvent,
\* which reports it and renders
ThrowsTypeError(ctx, sel, off) ==
    IF ctx = "mouse"
    THEN /\ selectedIndex' = sel
         /\ scrollOffset' = RenderScroll(viewMode, off, terminalWidth, maxDisplayLines,
                                         Len(files))
         /\ lastError' \in ({"reported"} \cup
               (RenderOutcomes(viewMode, scrollOffset', terminalWidth, maxDisplayLines,
                               files) \ {"none"}))
         /\ UNCHANGED << currentDirectory, files, viewMode, scrollMode,
                    activeGallery >>
    ELSE Returns(sel, off, "uncaught")

moveSelectionList(direction) ==
    LET newIndex == selectedIndex + direction
    IN  IF newIndex >= 0 /\ newIndex < Len(files)
        THEN LET off2 == IF newIndex < scrollOffset THEN newIndex
                         ELSE IF newIndex >= scrollOffset + maxDisplayLines
                              THEN newIndex - maxDisplayLines + 1
                              ELSE scrollOffset
             IN  /\ selectedIndex' = newIndex
                 /\ Rendered("key", viewMode, off2, files)
                 /\ UNCHANGED << currentDirectory, files, viewMode, scrollMode,
                    activeGallery >>
        ELSE Returns(selectedIndex, scrollOffset, "none")

\* the index moveSelectionGrid computes for a direction (lines 847-857)
GridNewIndex(sel, direction, columns, n) ==
    IF direction = -1 THEN Max(0, sel - columns)
    ELSE IF direction = 1 THEN Min(n - 1, sel + columns)
    ELSE IF direction = -2 THEN Max(0, sel - 1)
    ELSE IF direction = 2 THEN Min(n - 1, sel + 1)
    ELSE sel

moveSelectionGrid(direction) ==
    LET b == GridScrollBounds(terminalWidth, maxDisplayLines, Len(files))
        newIndex == GridNewIndex(selectedIndex, direction, b.columns, Len(files))
    IN  IF newIndex # selectedIndex /\ newIndex >= 0 /\ newIndex < Len(files)
        THEN LET currentVisibleRow == (newIndex - scrollOffset) \div b.columns
                 off2 == IF currentVisibleRow < 0 THEN newIndex
                         ELSE IF currentVisibleRow >= b.actualVisibleRows
                              THEN Max(0, newIndex - (b.actualVisibleRows - 1) * b.columns)
                              ELSE scrollOffset
             IN  /\ selectedIndex' = newIndex
                 /\ Rendered("key", viewMode, off2, files)
                 /\ UNCHANGED << currentDirectory, files, viewMode, scrollMode,
                    activeGallery >>
        ELSE Returns(selectedIndex, scrollOffset, "none")

moveSelection(direction) ==
    IF viewMode = "grid" THEN moveSelectionGrid(direction)
    ELSE moveSelectionList(direction)

\* scrollGrid, and the grid branch of handleScrollWheel (the same statements)
ScrollGridStep(ctx, direction) ==
    LET b == GridScrollBounds(terminalWidth, maxDisplayLines, Len(files))
        scrollAmount == b.columns
        off2 == IF direction = -1 THEN Max(0, scrollOffset - scrollAmount)
                ELSE Min(b.maxScrollOffset, scrollOffset + scrollAmount)
        maxVisibleIndex == off2 + (maxDisplayLines * b.columns) - 1
        minVisibleIndex == off2
        sel2 == IF selectedIndex < minVisibleIndex THEN minVisibleIndex
                ELSE IF selectedIndex > maxVisibleIndex THEN maxVisibleIndex
                ELSE selectedIndex
    IN  /\ selectedIndex' = sel2
        /\ Rendered(ctx, viewMode, off2, files)
        /\ UNCHANGED << currentDirectory, files, viewMode, scrollMode,
                    activeGallery >>

scrollGrid(direction) == ScrollGridStep("key", direction)

handleScrollWheel(direction) ==
    IF viewMode = "grid" THEN ScrollGridStep("mouse", direction)
    ELSE LET maxScrollOffset == Max(0, Len(files) - maxDisplayLines)
             off2 == IF direction = -1 THEN Max(0, scrollOffset - 1)
                     ELSE Min(maxScrollOffset, scrollOffset + 1)
             maxVisibleIndex == off2 + maxDisplayLines - 1
             minVisibleIndex == off2
             sel2 == IF selectedIndex < minVisibleIndex THEN minVisibleIndex
                     ELSE IF selectedIndex > maxVisibleIndex THEN maxVisibleIndex
                     ELSE selectedIndex
         IN  /\ selectedIndex' = sel2
             /\ Rendered("mouse", viewMode, off2, files)
             /\ UNCHANGED << currentDirectory, files, viewMode, scrollMode,
                    activeGallery >>

\* a navigateToDirectory that kept the selection of the directory it leaves
navigateToDirectoryKeepSelection(ctx, dirPath, outcome) ==
    /\ currentDirectory' = dirPath
    /\ selectedIndex' = selectedIndex
    /\ files' = getMediaFiles(dirPath, outcome)
    /\ scrollOffset' = RenderScroll(viewMode, 0, terminalWidth, maxDisplayLines,
                                    Len(files'))
    /\ lastError' \in
          IF outcome.ok
          THEN Errs(ctx, RenderOutcomes(viewMode, scrollOffset', terminalWidth,
                                        maxDisplayLines, files'))
          ELSE {"reported"}
    /\ UNCHANGED << viewMode, scrollMode >>

\* a listing failure that escaped getMediaFiles would reject navigateToDirectory
navigateToDirectoryNoCatch(ctx, dirPath, outcome) ==
    /\ currentDirectory' = dirPath
    /\ selectedIndex' = 0
    /\ files' = getMediaFiles(dirPath, outcome)
    /\ scrollOffset' = 0
    /\ lastError' \in
          IF outcome.ok
          THEN Errs(ctx, RenderOutcomes(viewMode, scrollOffset', terminalWidth,
                                        maxDisplayLines, files'))
          ELSE {"uncaught"}
    /\ UNCHANGED << viewMode, scrollMode >>

\* navigateToDirectory (and the body of goBack) when readdirSync ends as
\* outcome: the fields it assigns
navigateToDirectoryWith(ctx, dirPath, outcome) ==
    /\ currentDirectory' = dirPath
    /\ selectedIndex' = 0
    /\ files' = getMediaFiles(dirPath, outcome)
    /\ scrollOffset' = RenderScroll(viewMode, 0, terminalWidth, maxDisplayLines,
                                    Len(files'))
    /\ lastError' \in
          IF outcome.ok
          THEN Errs(ctx, RenderOutcomes(viewMode, scrollOffset', terminalWidth,
                                        maxDisplayLines, files'))
          ELSE {"reported"}
    /\ UNCHANGED << viewMode, scrollMode >>

navigateToDirectory(ctx, dirPath) ==
    \E outcome \in ListingOutcomes(dirPath) :
       navigateToDirectoryWith(ctx, dirPath, outcome)

\* the paths openImageViewer hands to the gallery, and the start index
RECURSIVE ImageFiles(_)
ImageFiles(fs) ==
    IF fs = << >> THEN << >>
    ELSE IF Head(fs).type = "file" /\ isMediaFile(Head(fs).name)
         THEN << Head(fs).path >> \o ImageFiles(Tail(fs))
         ELSE ImageFiles(Tail(fs))

\* a gallery that always starts at the first image
IndexOfFirst(seq, x) == IF seq = << >> THEN -1 ELSE 0

\* Array.prototype.indexOf (0-based, -1 when absent)
IndexOf(seq, x) ==
    IF \E k \in 1..Len(seq) : seq[k] = x
    THEN (CHOOSE k \in 1..Len(seq) : seq[k] = x /\ \A j \in 1..(k - 1) : seq[j] # x) - 1
    ELSE -1

openImageViewer(sel, off, imagePath) ==
    LET imageFiles == ImageFiles(files)
        currentIndex == IndexOf(imageFiles, imagePath)
    IN  /\ selectedIndex' = sel
        /\ scrollOffset' = off
        /\ lastError' = "none"
        /\ activeGallery' =
              IF currentIndex = -1 THEN activeGallery
              ELSE [phase |-> "loading", imagePaths |-> imageFiles,
                    currentIndex |-> currentIndex]
        /\ UNCHANGED << currentDirectory, files, viewMode, scrollMode >>

\* viewSelectedFile; the caller says what becomes of the activation intent
viewSelectedFile(ctx, sel, off) ==
    IF Len(files) = 0 THEN Returns(sel, off, "none")
    ELSE LET selectedItem == FileAt(files, sel)
         IN  IF selectedItem.type = "directory"
             THEN navigateToDirectory(ctx, selectedItem.path) /\ UNCHANGED activeGallery
             ELSE IF selectedItem.type = "file" /\ isMediaFile(selectedItem.name)
             THEN openImageViewer(sel, off, selectedItem.path)
             ELSE /\ selectedIndex' = sel
                  /\ scrollOffset' = off
                  /\ lastError' = "none"
                  /\ UNCHANGED << currentDirectory, files, viewMode, scrollMode,
                                  activeGallery >>


\* the test without the window
IsRepeatedTarget(target) == lastClickTarget = target

\* the test of handleEnterKey and handleLeftMouseClick: a second activation
\* of the same target inside the window
IsDoubleActivation(target) ==
    /\ lastClickTarget = target
    /\ sinceLastClick < doubleClickThreshold

\* handleLeftMouseClick, with selectedIndex / scrollOffset as the caller left them
handleLeftMouseClick(sel, off) ==
    IF Len(files) = 0 THEN Returns(sel, off, "none") /\ intentUnchanged
    ELSE LET selectedItem == FileAt(files, sel)
         IN  IF selectedItem.type = "undefined"
             THEN ThrowsTypeError("mouse", sel, off) /\ intentUnchanged
             ELSE IF IsDoubleActivation(selectedItem.path)
             THEN /\ sinceLastClick' = NeverClicked
                  /\ lastClickTarget' = NoTarget
                  /\ IF selectedItem.type = "directory"
                     THEN navigateToDirectory("mouse", selectedItem.path)
                          /\ UNCHANGED activeGallery
                     ELSE viewSelectedFile("mouse", sel, off)
             ELSE /\ sinceLastClick' = JustClicked
                  /\ lastClickTarget' = selectedItem.path
                  /\ Returns(sel, off, "none")

\* the right-button branch of handleMouseEvent (lines 1134-1141)
handleRightMouseClick(sel, off) ==
    LET selectedItem == FileAt(files, sel)
    IN  /\ intentUnchanged
        /\ IF selectedItem.type = "undefined" THEN ThrowsTypeError("mouse", sel, off)
           ELSE IF selectedItem.type = "directory"
           THEN navigateToDirectory("mouse", selectedItem.path) /\ UNCHANGED activeGallery
           ELSE viewSelectedFile("key", sel, off)

ClickAction(button, sel, off) ==
    IF button = 0 THEN handleLeftMouseClick(sel, off)
    ELSE handleRightMouseClick(sel, off)

handleEnterKey ==
    IF Len(files) = 0 THEN Returns(selectedIndex, scrollOffset, "none") /\ intentUnchanged
    ELSE LET selectedItem == FileAt(files, selectedIndex)
         IN  IF selectedItem.type = "undefined"
             THEN ThrowsTypeError("key", selectedIndex, scrollOffset) /\ intentUnchanged
             ELSE IF IsDoubleActivation(selectedItem.path)
             THEN /\ sinceLastClick' = NeverClicked
                  /\ lastClickTarget' = NoTarget
                  /\ IF selectedItem.type = "directory"
                     THEN navigateToDirectory("key", selectedItem.path)
                          /\ UNCHANGED activeGallery
                     ELSE viewSelectedFile("key", selectedIndex, scrollOffset)
             ELSE /\ sinceLastClick' = JustClicked
                  /\ lastClickTarget' = selectedItem.path
                  /\ selectedIndex' = selectedIndex
                  /\ Rendered("key", viewMode, scrollOffset, files)
                  /\ UNCHANGED << currentDirectory, files, viewMode, scrollMode,
                                  activeGallery >>

refresh ==
    \E outcome \in ListingOutcomes(currentDirectory) :
       LET fs2 == getMediaFiles(currentDirectory, outcome)
           sel2 == Min(selectedIndex, Len(fs2) - 1)
           off2 == Min(scrollOffset, Max(0, Len(fs2) - maxDisplayLines))
       IN  /\ files' = fs2
           /\ selectedIndex' = sel2
           /\ scrollOffset' = RenderScroll(viewMode, off2, terminalWidth, maxDisplayLines,
                                           Len(fs2))
           /\ lastError' \in
                 IF outcome.ok
                 THEN RenderOutcomes(viewMode, scrollOffset', terminalWidth,
                                     maxDisplayLines, fs2)
                 ELSE {"reported"}
           /\ UNCHANGED << currentDirectory, viewMode, scrollMode, activeGallery >>

\* a toggleViewMode that kept the scroll offset of the view it leaves
toggleViewModeKeepScroll ==
    /\ viewMode' = IF viewMode = "list" THEN "grid" ELSE "list"
    /\ selectedIndex' = selectedIndex
    /\ Rendered("key", viewMode', scrollOffset, files)
    /\ UNCHANGED << currentDirectory, files, scrollMode, activeGallery >>

toggleViewMode ==
    /\ viewMode' = IF viewMode = "list" THEN "grid" ELSE "list"
    /\ selectedIndex' = selectedIndex
    /\ Rendered("key", viewMode', 0, files)
    /\ UNCHANGED << currentDirectory, files, scrollMode, activeGallery >>

toggleScrollMode ==
    /\ scrollMode' = ~scrollMode
    /\ selectedIndex' = selectedIndex
    /\ Rendered("key", viewMode, scrollOffset, files)
    /\ UNCHANGED << currentDirectory, files, viewMode, activeGallery >>

\* a goBack without the test of the root
goBackNoRootTest ==
    navigateToDirectory("key", PathDirname(currentDirectory)) /\ UNCHANGED activeGallery

goBack ==
    LET parentDir == PathDirname(currentDirectory)
    IN  IF parentDir # currentDirectory
        THEN navigateToDirectory("key", parentDir) /\ UNCHANGED activeGallery
        ELSE Returns(selectedIndex, scrollOffset, "none")

-----------------------------------------------------------------------------
(* Hit testing of handleMouseEvent (lines 1087-1122) *)

\* the loop over the columns; col stays 0 when no column holds x
RECURSIVE HitColumn(_, _, _, _, _)
HitColumn(c, currentX, x, columns, baseItemWidth) ==
    IF c >= columns THEN 0
    ELSE LET itemWidth == Max(IF c = 0 THEN minImageWidth ELSE minOtherWidth,
                              baseItemWidth)
         IN  IF x >= currentX /\ x < currentX + itemWidth THEN c
             ELSE HitColumn(c + 1, currentX + itemWidth + gapWidth, x, columns,
                            baseItemWidth)

HitIndex(x, adjustedY) ==
    LET headerHeight == 0
    IN  IF viewMode = "grid"
        THEN LET columns == calculateGridDimensions(terminalWidth, Len(files)).columns
                 availableWidth == terminalWidth - 2 - (gapWidth * (columns - 1))
                 baseItemWidth == availableWidth \div columns
                 row == (adjustedY - headerHeight) \div hitItemHeight
                 col == HitColumn(0, 1, x, columns, baseItemWidth)
             IN  (row + scrollOffset) * columns + col
        ELSE adjustedY - headerHeight + scrollOffset


-----------------------------------------------------------------------------
(* Input events *)

\* decoded mouse reports the model delivers: button, column, line
MouseButtons == {0, 1, 3, 64, 65, 96, 97}

terminalUnchanged == UNCHANGED << terminalWidth, terminalHeight, maxDisplayLines >>

\* the browser's 'data' listener is the one installed, the process lives
BrowserInput == running /\ stdinHandler = "browser"

\* an unhandled rejection ends the process (Node's default)
Survives == running' = (lastError' # "uncaught")

KeyFrame ==
    /\ Survives
    /\ UNCHANGED << terminalWidth, terminalHeight, maxDisplayLines,
                    stdinHandler, pendingClicks, world, slider, extras >>

KeyUp ==
    /\ BrowserInput
    /\ IF viewMode = "grid" /\ scrollMode THEN scrollGrid(-1) ELSE moveSelection(-1)
    /\ intentUnchanged /\ KeyFrame

KeyDown ==
    /\ BrowserInput
    /\ IF viewMode = "grid" /\ scrollMode THEN scrollGrid(1) ELSE moveSelection(1)
    /\ intentUnchanged /\ KeyFrame

KeyLeft ==
    /\ BrowserInput
    /\ IF viewMode = "grid" THEN moveSelection(-2)
       ELSE Returns(selectedIndex, scrollOffset, "none")
    /\ intentUnchanged /\ KeyFrame

KeyRight ==
    /\ BrowserInput
    /\ IF viewMode = "grid" THEN moveSelection(2)
       ELSE Returns(selectedIndex, scrollOffset, "none")
    /\ intentUnchanged /\ KeyFrame

KeyPageUp ==
    /\ BrowserInput
    /\ IF viewMode = "grid" THEN scrollGrid(-1)
       ELSE Returns(selectedIndex, scrollOffset, "none")
    /\ intentUnchanged /\ KeyFrame

KeyPageDown ==
    /\ BrowserInput
    /\ IF viewMode = "grid" THEN scrollGrid(1)
       ELSE Returns(selectedIndex, scrollOffset, "none")
    /\ intentUnchanged /\ KeyFrame

KeyEnter == BrowserInput /\ handleEnterKey /\ KeyFrame

KeyRefresh == BrowserInput /\ refresh /\ intentUnchanged /\ KeyFrame

KeyToggleView == BrowserInput /\ toggleViewMode /\ intentUnchanged /\ KeyFrame

KeyToggleScroll == BrowserInput /\ toggleScrollMode /\ intentUnchanged /\ KeyFrame

KeyBackspace == BrowserInput /\ goBack /\ intentUnchanged /\ KeyFrame

\* process.exit: the process and its objects are gone.  The fields are given
\* fixed values, so that the model has one exited state for each machine.
Exited ==
    /\ running' = FALSE
    /\ currentDirectory' = << >>
    /\ files' = << >>
    /\ selectedIndex' = 0
    /\ scrollOffset' = 0
    /\ viewMode' = "grid"
    /\ scrollMode' = FALSE
    /\ terminalWidth' = minTerminalWidth
    /\ terminalHeight' = minTerminalHeight
    /\ maxDisplayLines' = Max(1, minTerminalHeight - footerLines)
    /\ sinceLastClick' = NeverClicked
    /\ lastClickTarget' = NoTarget
    /\ activeGallery' = NoGallery
    /\ stdinHandler' = "browser"
    /\ pendingClicks' = << >>
    /\ lastError' = "none"
    /\ slider' = NoSlider
    /\ resizeBurst' = NoBurst
    /\ thumbnailCache' = EmptyMap
    /\ thumbnailCalls' = NoCalls
    /\ compositor' = NoPixels
    /\ UNCHANGED world

\* process.exit: the 'exit' listener of start() shows the cursor (lines
\* 1357-1359), and Node puts the tty of stdin back to the mode it found
ProcessExit(modes) == [modes EXCEPT !.cursorVisible = TRUE, !.rawMode = FALSE]

\* quit() (lines 1336-1350): mouseEnabled is true
KeyQuit ==
    /\ BrowserInput
    /\ Exited
    /\ terminal' = ProcessExit([terminal EXCEPT !.mouseReporting = FALSE,
                                                !.cursorVisible = TRUE,
                                                !.rawMode = FALSE])

\* the SIGINT listener of start() (lines 1361-1368), the browser or a
\* gallery on the screen
Sigint ==
    /\ running
    /\ Exited
    /\ terminal' = ProcessExit([terminal EXCEPT !.mouseReporting = FALSE,
                                                !.cursorVisible = TRUE])

\* a test of the scroll buttons that knows those of the fixed form only
ScrollButtonsPrimary == {64, 65}

\* the buttons of the scroll wheel (line 1073): 64 and 65, and 96 and 97 of
\* the alternative formats
ScrollButtons == {64, 65, 96, 97}

\* handleMouseEvent for a decoded report.  A first render that rejects is
\* taken to reject at once; one that settles may suspend the handler.
handleMouseEvent(button, x, y) ==
    IF button \in ScrollButtons
    THEN LET isScrollUp == (button = 64 \/ button = 96)
         IN  /\ handleScrollWheel(IF isScrollUp THEN -1 ELSE 1)
             /\ intentUnchanged
             /\ UNCHANGED pendingClicks
    ELSE LET adjustedY == y - 1
             listIndex == HitIndex(x, adjustedY)
         IN  IF /\ (button = 0 \/ button = 3)
                /\ adjustedY >= 0 /\ adjustedY < maxDisplayLines
                /\ listIndex >= 0 /\ listIndex < Len(files)
             THEN IF selectedIndex = listIndex
                  THEN \* wasSelected: no render before the click is acted on
                       /\ ClickAction(button, listIndex, scrollOffset)
                       /\ UNCHANGED pendingClicks
                  ELSE LET off2 == RenderScroll(viewMode, scrollOffset, terminalWidth,
                                                maxDisplayLines, Len(files))
                           mayThrow == RenderMayThrow(viewMode, off2, terminalWidth,
                                                      maxDisplayLines, files)
                           suspends == RenderSuspends(viewMode, off2, terminalWidth,
                                                      maxDisplayLines, files)
                       IN  \/ \* the render settles with no decode in flight
                              /\ ~mayThrow
                              /\ ClickAction(button, listIndex, off2)
                              /\ UNCHANGED pendingClicks
                           \/ \* the render rejects: caught, reported, rendered again
                              /\ mayThrow
                              /\ ThrowsTypeError("mouse", listIndex, off2)
                              /\ intentUnchanged
                              /\ UNCHANGED pendingClicks
                           \/ \* the handler is suspended in the render
                              /\ suspends
                              /\ Len(pendingClicks) < MaxPending
                              /\ pendingClicks' = Append(pendingClicks, button)
                              /\ Returns(listIndex, off2, lastError)
                              /\ intentUnchanged
             ELSE /\ Returns(selectedIndex, scrollOffset, "none")
                  /\ intentUnchanged
                  /\ UNCHANGED pendingClicks

Mouse ==
    /\ BrowserInput
    /\ \E button \in MouseButtons :
          IF button \in {0, 3}
          THEN \E x \in world.xs, y \in world.ys : handleMouseEvent(button, x, y)
          ELSE handleMouseEvent(button, 1, 1)
    /\ Survives
    /\ UNCHANGED << terminalWidth, terminalHeight, maxDisplayLines, stdinHandler,
                    world, slider, extras >>

\* a suspended handleMouseEvent resumes once its render has settled, and
\* acts on the selection and the list as they are by then
RemoveAt(seq, k) == SubSeq(seq, 1, k - 1) \o SubSeq(seq, k + 1, Len(seq))

ClickResume ==
    /\ running
    /\ \E k \in 1..Len(pendingClicks) :
          /\ pendingClicks' = RemoveAt(pendingClicks, k)
          /\ ClickAction(pendingClicks[k], selectedIndex, scrollOffset)
    /\ Survives
    /\ UNCHANGED << terminalWidth, terminalHeight, maxDisplayLines, stdinHandler,
                    world, slider, extras >>

-----------------------------------------------------------------------------
(* The ImageGallerySlider object (lines 9-213).  slider holds its fields   *)
(* and calls, the suspended showCurrentImage calls: who called, and the    *)
(* index of the path handed to generate.  The object is followed in        *)
(* SpecGallery; Spec knows a gallery by activeGallery.phase alone.         *)

\* this.imageData = null
NoImage == [index |-> -1, height |-> 0]

\* process.stdout.rows || 24, as the gallery reads it (no minimum)
GalleryRows(r) == IF r = 0 THEN defaultRows ELSE r

\* the constructor (lines 10-28); rows is process.stdout.rows || 24
ImageGallerySlider(imagePaths, startIndex, rows) ==
    [constructed |-> TRUE, imagePaths |-> imagePaths, currentIndex |-> startIndex,
     isNavigating |-> FALSE, terminalHeight |-> rows, scrollOffset |-> 0,
     imageData |-> NoImage, imageHeight |-> 0, calls |-> << >>]

\* showCurrentImage up to its await of generate(currentPath) (lines 30-44)
showCurrentImage(g, by) ==
    [g EXCEPT !.calls = Append(@, [by |-> by, index |-> g.currentIndex])]

\* this.resizeHandler (lines 21-25)
resizeHandler(g, r) ==
    showCurrentImage([g EXCEPT !.terminalHeight = GalleryRows(r)], "resize")

\* the calls of the resize handler that are suspended
ResizeCalls(g) ==
    IF g.constructed THEN Cardinality({ k \in 1..Len(g.calls) : g.calls[k].by = "resize" })
    ELSE 0

\* a listener that would render whether a gallery is active or not
ListenerAlwaysRenders == TRUE

\* the browser's 'resize' listener returns before its render while a
\* gallery is active (lines 260-264)
ListenerReachesRender == activeGallery = NoGallery

\* the 'resize' listeners: the one of TerminalGUI's constructor, then the
\* one of the gallery, which onExit as openImageViewer replaces it (line
\* 928) no longer removes
ResizeListeners ==
    /\ running
    /\ ResizeCalls(slider) < MaxResizeCalls
    /\ \E c \in world.columns, r \in world.rows :
          /\ terminalWidth' = InitialSize(c, r).w
          /\ terminalHeight' = InitialSize(c, r).h
          /\ slider' = IF slider.constructed THEN resizeHandler(slider, r) ELSE slider
    /\ maxDisplayLines' = Max(1, terminalHeight' - footerLines)
    /\ IF ~ListenerReachesRender
       THEN UNCHANGED << scrollOffset, lastError >>
       ELSE /\ scrollOffset' = RenderScroll(viewMode, scrollOffset, terminalWidth',
                                            maxDisplayLines', Len(files))
            /\ lastError' \in RenderOutcomes(viewMode, scrollOffset', terminalWidth',
                                             maxDisplayLines', files)
    /\ UNCHANGED << currentDirectory, files, selectedIndex, viewMode, scrollMode,
                    sinceLastClick, lastClickTarget, activeGallery, stdinHandler,
                    pendingClicks, world >>
    /\ Survives

\* a resize, the burst it belongs to not being followed
Resize == ResizeListeners /\ UNCHANGED extras

\* the clock advances; beyond the threshold every age reads the same
Tick ==
    /\ running
    /\ sinceLastClick' = Min(doubleClickThreshold, sinceLastClick + TickStep)
    /\ UNCHANGED << currentDirectory, files, selectedIndex, scrollOffset, viewMode,
                    scrollMode, terminalWidth, terminalHeight, maxDisplayLines,
                    lastClickTarget, activeGallery, stdinHandler,
                    pendingClicks, running, lastError, world, slider, extras >>

-----------------------------------------------------------------------------
(* The gallery, as far as the browser is concerned *)

\* showCurrentImage of a gallery just started: the decode settles; on
\* success displayWithNavigation installs the gallery's key handler
GalleryDecodeDone ==
    /\ running
    /\ activeGallery.phase = "loading"
    /\ \E ok \in BOOLEAN :
          /\ activeGallery' = [activeGallery EXCEPT !.phase = IF ok THEN "shown" ELSE "failed"]
          /\ stdinHandler' = IF ok THEN "gallery" ELSE stdinHandler
    /\ UNCHANGED << currentDirectory, files, selectedIndex, scrollOffset, viewMode,
                    scrollMode, terminalWidth, terminalHeight, maxDisplayLines,
                    sinceLastClick, lastClickTarget, pendingClicks, running,
                    lastError, world, slider, extras >>

\* Escape in the gallery: the onExit closure of openImageViewer, then its
\* await this.render()
GalleryEscape ==
    /\ running
    /\ stdinHandler = "gallery"
    /\ activeGallery' = NoGallery
    /\ stdinHandler' = "browser"
    /\ selectedIndex' = selectedIndex
    /\ Rendered("key", viewMode, scrollOffset, files)
    /\ UNCHANGED << currentDirectory, files, viewMode, scrollMode, terminalWidth,
                    terminalHeight, maxDisplayLines, sinceLastClick, lastClickTarget,
                    pendingClicks, world, slider, extras >>
    /\ Survives

\* q in the gallery: process.exit(0)
GalleryQuit ==
    /\ running
    /\ stdinHandler = "gallery"
    /\ Exited
    /\ terminal' = ProcessExit([terminal EXCEPT !.rawMode = FALSE])

-----------------------------------------------------------------------------
Next ==
    \/ KeyUp \/ KeyDown \/ KeyLeft \/ KeyRight \/ KeyPageUp \/ KeyPageDown
    \/ KeyEnter \/ KeyRefresh \/ KeyToggleView \/ KeyToggleScroll \/ KeyBackspace
    \/ KeyQuit \/ Mouse \/ ClickResume \/ Resize \/ Tick
    \/ GalleryDecodeDone \/ GalleryEscape \/ GalleryQuit \/ Sigint

Spec == Init /\ [][Next]_vars

-----------------------------------------------------------------------------
(* Scrolling and selection alone, on the larger machine: no entry is opened *)

\* a wheel report
Wheel ==
    /\ BrowserInput
    /\ \E button \in {64, 65, 96, 97} : handleMouseEvent(button, 1, 1)
    /\ Survives
    /\ UNCHANGED << terminalWidth, terminalHeight, maxDisplayLines, stdinHandler,
                    world, slider, extras >>

InitScroll == InitIn(LargeWorld)

NextScroll ==
    \/ KeyUp \/ KeyDown \/ KeyLeft \/ KeyRight \/ KeyPageUp \/ KeyPageDown
    \/ KeyRefresh \/ KeyToggleView \/ KeyToggleScroll \/ Wheel \/ Resize

SpecScroll == InitScroll /\ [][NextScroll]_vars

-----------------------------------------------------------------------------
(* moveSelection, navigateToDirectory and goBack called directly, on the   *)
(* larger machine; toggleViewMode is there to reach the list view          *)

CallMoveSelection ==
    /\ BrowserInput
    /\ \E direction \in {-2, -1, 1, 2} : moveSelection(direction)
    /\ intentUnchanged /\ KeyFrame

CallNavigateToDirectory ==
    /\ BrowserInput
    /\ \E k \in 1..Len(files) :
          /\ files[k].type = "directory"
          /\ navigateToDirectory("key", files[k].path)
    /\ UNCHANGED activeGallery
    /\ intentUnchanged /\ KeyFrame

InitNav == InitIn(LargeWorld)

NextNav == CallMoveSelection \/ CallNavigateToDirectory \/ KeyBackspace \/ KeyToggleView

SpecNav == InitNav /\ [][NextNav]_vars

-----------------------------------------------------------------------------
(* The gallery in full: openImageViewer called on the selected image, the  *)
(* gallery's key handler, its resize handler and its decodes.  The machine *)
(* lists one directory of three images; its sizes are above the browser's  *)
(* minimum, so that terminalHeight is process.stdout.rows || 24.  One      *)
(* gallery object is followed: a new one is opened once the calls of the   *)
(* last have settled.                                                       *)

ListingGallery ==
    << RawFile("c.gif"), RawFile("b.txt"), RawFile("a.png"), RawFile("B.jpg") >>

\* heights: the rows of cells a decoded image may have (imageHeight)
GalleryWorld ==
    [tree |-> ( << >> :> { ListingGallery } ),
     columns |-> {70}, rows |-> {24, 43},
     xs |-> {1}, ys |-> {1},
     heights |-> {10, 20}]

\* the gallery's 'data' listener is the one installed
SliderInput == running /\ stdinHandler = "gallery" /\ slider.constructed

\* what a key of the gallery leaves alone
SliderFrame ==
    UNCHANGED << currentDirectory, files, selectedIndex, scrollOffset, viewMode,
                 scrollMode, terminalWidth, terminalHeight, maxDisplayLines,
                 sinceLastClick, lastClickTarget, activeGallery, stdinHandler,
                 pendingClicks, running, lastError, world, extras >>

\* Math.max(0, this.imageHeight - availableHeight) of the down arrow
GalleryMaxScrollOffset(g) ==
    Max(0, g.imageHeight - (g.terminalHeight - galleryFooterLines))

\* displayWithNavigation: nothing without imageData; else the image is
\* drawn and setupNavigation installs the gallery's key handler
displayWithNavigation(g, handler) ==
    IF g.imageData = NoImage THEN handler ELSE "gallery"

\* viewSelectedFile on a selected image: openImageViewer constructs the
\* gallery and starts it
CallOpenImageViewer ==
    /\ BrowserInput
    /\ slider.constructed => slider.calls = << >>
    /\ selectedIndex >= 0 /\ selectedIndex < Len(files)
    /\ LET selectedItem == FileAt(files, selectedIndex)
           imageFiles == ImageFiles(files)
       IN  /\ selectedItem.type = "file" /\ isMediaFile(selectedItem.name)
           /\ openImageViewer(selectedIndex, scrollOffset, selectedItem.path)
           /\ slider' = showCurrentImage(
                           ImageGallerySlider(imageFiles,
                                              IndexOf(imageFiles, selectedItem.path),
                                              terminalHeight),
                           "start")
    /\ intentUnchanged
    /\ Survives
    /\ UNCHANGED << terminalWidth, terminalHeight, maxDisplayLines, stdinHandler,
                    pendingClicks, world, extras >>

\* a key handler that would clear the guard only after a decode that resolved
HandlerGoesOnIfDecoded(g, call, ok) ==
    IF call.by = "key" /\ ok THEN [g EXCEPT !.isNavigating = FALSE] ELSE g

\* the caller of a showCurrentImage that has returned goes on: the key
\* handler clears isNavigating (line 191), whether generate resolved or the
\* catch of showCurrentImage took its rejection
HandlerGoesOn(g, call, ok) ==
    IF call.by = "key" THEN [g EXCEPT !.isNavigating = FALSE] ELSE g

\* a suspended showCurrentImage resumes (lines 44-52): generate resolved with
\* an image of some height, or rejected; then its caller goes on (the key
\* handler clears isNavigating)
ShowCurrentImageSettles ==
    /\ running
    /\ slider.constructed
    /\ \E k \in 1..Len(slider.calls), ok \in BOOLEAN, h \in world.heights :
          LET call == slider.calls[k]
              g1 == [slider EXCEPT !.calls = RemoveAt(slider.calls, k)]
              g2 == IF ok
                    THEN [g1 EXCEPT !.imageData = [index |-> call.index, height |-> h],
                                    !.imageHeight = h,
                                    !.scrollOffset = 0]
                    ELSE g1
              g3 == HandlerGoesOn(g2, call, ok)
          IN  /\ slider' = g3
              /\ stdinHandler' = IF ok THEN displayWithNavigation(g2, stdinHandler)
                                 ELSE stdinHandler
              /\ activeGallery' =
                    IF call.by = "start" /\ activeGallery.phase = "loading"
                    THEN [activeGallery EXCEPT !.phase = IF ok THEN "shown" ELSE "failed"]
                    ELSE activeGallery
    /\ UNCHANGED << currentDirectory, files, selectedIndex, scrollOffset, viewMode,
                    scrollMode, terminalWidth, terminalHeight, maxDisplayLines,
                    sinceLastClick, lastClickTarget, pendingClicks, running,
                    lastError, world, extras >>

\* the left and right arrows of the gallery (lines 166-175)
SliderMove(delta) ==
    /\ SliderInput
    /\ LET target == slider.currentIndex + delta
       IN  slider' =
              IF slider.isNavigating THEN slider
              ELSE IF target >= 0 /\ target <= Len(slider.imagePaths) - 1
              THEN showCurrentImage([slider EXCEPT !.isNavigating = TRUE,
                                                   !.currentIndex = target], "key")
              ELSE slider
    /\ SliderFrame

SliderLeft == SliderMove(-1)

SliderRight == SliderMove(1)

\* the up arrow of the gallery (lines 176-181)
SliderUp ==
    /\ SliderInput
    /\ slider' =
          IF ~slider.isNavigating /\ slider.scrollOffset > 0
          THEN [slider EXCEPT !.scrollOffset = Max(0, slider.scrollOffset - 1)]
          ELSE slider
    /\ SliderFrame

\* the down arrow of the gallery (lines 182-189)
SliderDown ==
    /\ SliderInput
    /\ LET maxScrollOffset == GalleryMaxScrollOffset(slider)
       IN  slider' =
              IF ~slider.isNavigating /\ slider.scrollOffset < maxScrollOffset
              THEN [slider EXCEPT !.scrollOffset =
                                     Min(maxScrollOffset, slider.scrollOffset + 1)]
              ELSE slider
    /\ SliderFrame

\* Escape in the gallery (lines 159-165): onExit as openImageViewer set it
\* (activeGallery = null, setupInput), then openImageViewer's render;
\* the handler returns with isNavigating still set
SliderEscape ==
    /\ SliderInput
    /\ ~slider.isNavigating
    /\ slider' = [slider EXCEPT !.isNavigating = TRUE]
    /\ activeGallery' = NoGallery
    /\ stdinHandler' = "browser"
    /\ selectedIndex' = selectedIndex
    /\ Rendered("key", viewMode, scrollOffset, files)
    /\ UNCHANGED << currentDirectory, files, viewMode, scrollMode, terminalWidth,
                    terminalHeight, maxDisplayLines, sinceLastClick, lastClickTarget,
                    pendingClicks, world, extras >>
    /\ Survives

\* q in the gallery (lines 154-158)
SliderQuit ==
    /\ SliderInput
    /\ ~slider.isNavigating
    /\ Exited
    /\ terminal' = ProcessExit([terminal EXCEPT !.rawMode = FALSE])

InitGallery == InitIn(GalleryWorld)

NextGallery ==
    \/ CallOpenImageViewer \/ KeyLeft \/ KeyRight \/ Resize
    \/ ShowCurrentImageSettles
    \/ SliderLeft \/ SliderRight \/ SliderUp \/ SliderDown
    \/ SliderEscape \/ SliderQuit

SpecGallery == InitGallery /\ [][NextGallery]_vars

\* the decode a key handler of the gallery awaits settles: generate resolves
\* or rejects, and the handler is resumed
KeyDecodeSettles ==
    ShowCurrentImageSettles /\ slider.isNavigating /\ ~slider'.isNavigating

\* the gallery opened on the image the browser starts on, its keys, the
\* resizes and the decodes
NextGalleryKeys ==
    \/ CallOpenImageViewer \/ Resize \/ ShowCurrentImageSettles
    \/ SliderLeft \/ SliderRight \/ SliderUp \/ SliderDown
    \/ SliderEscape \/ SliderQuit

SpecGalleryFair ==
    InitGallery /\ [][NextGalleryKeys]_vars /\ WF_vars(KeyDecodeSettles)

-----------------------------------------------------------------------------
(* Bursts of resize notifications.  resizeBurst follows the burst under    *)
(* way: the time since its last notification, the notifications, the       *)
(* renders of the browser's listener, and the debounce timer of start.js   *)
(* with the relayouts it has run.  A notification later than the debounce  *)
(* delay after the last one begins a new burst.                            *)

\* a resize notification: the listeners of run.js run at once; the listener
\* of start.js (lines 20-26) clears its timer and sets it again
ResizeNotified ==
    /\ (resizeBurst.age < resizeDebounce => resizeBurst.events < MaxBurst)
    /\ ResizeListeners
    /\ LET begins == resizeBurst.age >= resizeDebounce
           before == IF begins THEN NoBurst ELSE resizeBurst
       IN  resizeBurst' =
              [age |-> 0,
               events |-> before.events + 1,
               renders |-> IF ~ListenerReachesRender THEN before.renders
                           ELSE before.renders + 1,
               timer |-> TRUE,
               relayouts |-> before.relayouts]
    /\ UNCHANGED << thumbnailCache, thumbnailCalls, compositor, terminal >>

\* the clock advances within a burst; a timer that is due runs its relayout
BurstTick ==
    /\ running
    /\ resizeBurst.age < resizeDebounce
    /\ LET age2 == Min(resizeDebounce, resizeBurst.age + BurstTickStep)
           due == resizeBurst.timer /\ age2 >= resizeDebounce
       IN  resizeBurst' =
              [resizeBurst EXCEPT !.age = age2,
                                  !.timer = IF due THEN FALSE ELSE @,
                                  !.relayouts = IF due THEN @ + 1 ELSE @]
    /\ UNCHANGED << currentDirectory, files, selectedIndex, scrollOffset, viewMode,
                    scrollMode, terminalWidth, terminalHeight, maxDisplayLines,
                    sinceLastClick, lastClickTarget, activeGallery, stdinHandler,
                    pendingClicks, running, lastError, world, slider,
                    thumbnailCache, thumbnailCalls, compositor, terminal >>

InitResize == InitIn(LargeWorld)

NextResize == ResizeNotified \/ BurstTick \/ KeyToggleView

SpecResize == InitResize /\ [][NextResize]_vars

\* the bursts with a gallery on the screen: the gallery opened on the image
\* the browser starts on, its decodes, and Escape
NextGalleryResize ==
    \/ CallOpenImageViewer \/ ShowCurrentImageSettles \/ SliderEscape
    \/ ResizeNotified \/ BurstTick

SpecGalleryResize == InitGallery /\ [][NextGalleryResize]_vars

-----------------------------------------------------------------------------
(* The thumbnails: generateThumbnail (lines 322-335) as the tile loop of   *)
(* drawGridView calls it (line 631).  The renders of the handlers are      *)
(* followed here tile by tile: a render under way asks for the thumbnail   *)
(* of a visible image, and renders of several handlers may overlap.  The   *)
(* decoder gives what the file holds when it is read (one of world.grids). *)

ThumbnailWorld ==
    [tree |-> ( << >> :> { ListingThree } @@
                << "Sub" >> :> { ListingFiles } ),
     columns |-> {70}, rows |-> {24},
     xs |-> {1}, ys |-> {1},
     grids |-> {"g1", "g2"}]

\* the paths of the images drawGridView draws tiles for
VisibleImages ==
    { FileAt(files, i).path :
        i \in { j \in GridViewIndices(scrollOffset, terminalWidth, maxDisplayLines,
                                       Len(files)) :
                  /\ FileAt(files, j).type = "file"
                  /\ isMediaFile(FileAt(files, j).name) } }

\* what the thumbnail steps leave alone
ThumbnailFrame ==
    UNCHANGED << currentDirectory, files, selectedIndex, scrollOffset, viewMode,
                 scrollMode, terminalWidth, terminalHeight, maxDisplayLines,
                 sinceLastClick, lastClickTarget, activeGallery, stdinHandler,
                 pendingClicks, running, lastError, world, slider, resizeBurst,
                 compositor, terminal >>

\* generateThumbnail(imagePath) up to its return or its await (lines 322-328)
generateThumbnail(imagePath) ==
    IF imagePath \in DOMAIN thumbnailCache
    THEN /\ thumbnailCalls' =
               [thumbnailCalls EXCEPT !.returned =
                   (imagePath :> (MapGet(@, imagePath, {}) \cup {thumbnailCache[imagePath]}))
                   @@ @]
         /\ UNCHANGED thumbnailCache
    ELSE /\ Len(thumbnailCalls.pending) < MaxThumbnailCalls
         /\ thumbnailCalls' =
               [thumbnailCalls EXCEPT !.pending = Append(@, imagePath)]
         /\ UNCHANGED thumbnailCache

\* a render under way in the grid view reaches the tile of an image
ThumbnailRequested ==
    /\ running
    /\ viewMode = "grid"
    /\ \E imagePath \in VisibleImages : generateThumbnail(imagePath)
    /\ ThumbnailFrame

\* the decode of a suspended call resolves (lines 328-330)
ThumbnailResolves ==
    /\ running
    /\ \E k \in 1..Len(thumbnailCalls.pending), thumbnailData \in world.grids :
          LET imagePath == thumbnailCalls.pending[k]
          IN  /\ thumbnailCache' = (imagePath :> thumbnailData) @@ thumbnailCache
              /\ thumbnailCalls' =
                    [pending |-> RemoveAt(thumbnailCalls.pending, k),
                     resolved |-> (imagePath :>
                                     (MapGet(thumbnailCalls.resolved, imagePath, 0) + 1))
                                  @@ thumbnailCalls.resolved,
                     returned |-> (imagePath :>
                                     (MapGet(thumbnailCalls.returned, imagePath, {})
                                        \cup {thumbnailData}))
                                  @@ thumbnailCalls.returned]
    /\ ThumbnailFrame

\* the decode of a suspended call rejects: caught, null returned (331-334)
ThumbnailRejects ==
    /\ running
    /\ \E k \in 1..Len(thumbnailCalls.pending) :
          thumbnailCalls' =
             [thumbnailCalls EXCEPT !.pending = RemoveAt(thumbnailCalls.pending, k)]
    /\ UNCHANGED thumbnailCache
    /\ ThumbnailFrame

InitThumbnails == InitIn(ThumbnailWorld)

NextThumbnails ==
    \/ ThumbnailRequested \/ ThumbnailResolves \/ ThumbnailRejects
    \/ CallNavigateToDirectory \/ KeyBackspace \/ KeyRefresh \/ KeyToggleView

SpecThumbnails == InitThumbnails /\ [][NextThumbnails]_vars

-----------------------------------------------------------------------------
(* The compositor: Generator.imageToData (generate.js, lines 41-95).  It   *)
(* is given what sharp's raw().toBuffer({resolveWithObject: true}) resolved *)
(* with: data, the bytes of the pixels row by row, and info.                *)

UPPER_HALF_BLOCK == "upper half block"
LOWER_HALF_BLOCK == "lower half block"
Blank == " "

\* a raw image of the given size.  Its bytes are not listed: data[i] is
\* given by DataAt.  The pixel p (row by row, from 0) has the alpha alphas[p]
\* when the image has an alpha channel; the colour of a pixel tells its
\* place, and its three channels differ.
PixelBuffer(width, height, channels, alphas) ==
    [info |-> [width |-> width, height |-> height, channels |-> channels],
     alphas |-> alphas]

\* data.length
DataLength(imageData) ==
    imageData.info.width * imageData.info.height * imageData.info.channels

\* data[i]; past the end of the buffer it is undefined, which no comparison
\* with a number holds for: -1 here
DataAt(imageData, i) ==
    LET channels == imageData.info.channels
    IN  IF i < 0 \/ i >= DataLength(imageData) THEN -1
        ELSE IF i % channels = 3 THEN imageData.alphas[i \div channels]
        ELSE (3 * (i \div channels) + (i % channels) + 1) % 256

\* the alphas of the pixels: none, and either side of the threshold
Alphas == {0, opaqueThreshold - 1, opaqueThreshold}

\* the small raw images, and one wide enough to reach maxCells before the
\* last pair of rows is through (five rows: two pairs, one row left over)
PixelBuffers ==
    { PixelBuffer(d[1], d[2], 3, << >>) :
        d \in { e \in (1..MaxPixels) \X (1..MaxPixels) : e[1] * e[2] <= MaxPixels } }
    \cup UNION { { PixelBuffer(d[1], d[2], 4, alphas) :
                     alphas \in [0..(d[1] * d[2] - 1) -> Alphas] } :
                  d \in { e \in (1..MaxPixels) \X (1..MaxPixels) :
                            e[1] * e[2] <= MaxPixels } }
    \cup { PixelBuffer(maxCells \div 2 + 1, 5, 3, << >>) }

\* a foreground that would list blue first
ForegroundBlueFirst(data, index) ==
    << 38, 2, DataAt(data, index + 2), DataAt(data, index + 1), DataAt(data, index) >>

\* `\x1b[38;2;r;g;bm` and `\x1b[48;2;r;g;bm` of the pixel at index
Foreground(data, index) ==
    << 38, 2, DataAt(data, index), DataAt(data, index + 1), DataAt(data, index + 2) >>
Background(data, index) ==
    << 48, 2, DataAt(data, index), DataAt(data, index + 1), DataAt(data, index + 2) >>

\* a loop that would run for `y < height`
PairRowsToLastRow(height) == { y \in 0..(height - 1) : y % 2 = 0 }

\* the values y takes in `for (let y = 0; y < height - 1; y += 2)`
PairRows(height) == { y \in 0..(height - 2) : y % 2 = 0 }

\* the body of the inner loop at (y, x), up to the test of char (53-75):
\* the cell it would push, and the indices of data it read
PairAt(imageData, y, x) ==
    LET data == imageData
        width == imageData.info.width
        channels == imageData.info.channels
        upperIndex == (y * width + x) * channels
        lowerIndex == ((y + 1) * width + x) * channels
        upperA == IF channels = 4 THEN DataAt(data, upperIndex + 3) ELSE opaqueAlpha
        lowerA == IF channels = 4 THEN DataAt(data, lowerIndex + 3) ELSE opaqueAlpha
        alphaRead == IF channels = 4 THEN {upperIndex + 3, lowerIndex + 3} ELSE {}
        cell(char, ansi) == [x |-> x, y |-> y \div 2, char |-> char, ansi |-> ansi]
    IN  IF upperA >= opaqueThreshold /\ lowerA >= opaqueThreshold
        THEN [cell |-> cell(UPPER_HALF_BLOCK,
                            << Foreground(data, upperIndex), Background(data, lowerIndex) >>),
              read |-> alphaRead \cup (upperIndex..(upperIndex + 2))
                                 \cup (lowerIndex..(lowerIndex + 2))]
        ELSE IF upperA >= opaqueThreshold
        THEN [cell |-> cell(UPPER_HALF_BLOCK, << Foreground(data, upperIndex) >>),
              read |-> alphaRead \cup (upperIndex..(upperIndex + 2))]
        ELSE IF lowerA >= opaqueThreshold
        THEN [cell |-> cell(LOWER_HALF_BLOCK, << Foreground(data, lowerIndex) >>),
              read |-> alphaRead \cup (lowerIndex..(lowerIndex + 2))]
        ELSE [cell |-> cell(Blank, << >>), read |-> alphaRead]

\* the iterations of the two loops in the order they run, were there no
\* early return
Iterations(imageData) ==
    LET width == imageData.info.width
        count == Cardinality(PairRows(imageData.info.height)) * width
    IN  SubSeq([k \in 1..count |->
                   PairAt(imageData, 2 * ((k - 1) \div width), (k - 1) % width)],
               1, count)

Pushes(iteration) == iteration.cell.char # Blank

\* loops that would never return early
imageToDataNoCeiling(imageData, ceiling) ==
    LET width == imageData.info.width
        channels == imageData.info.channels
        all == Iterations(imageData)
        pushing == SelectSeq(all, Pushes)
    IN  [cells |-> SubSeq([k \in 1..Len(pushing) |-> pushing[k].cell], 1, Len(pushing)),
         warned |-> FALSE,
         rows |-> UNION { { i \div (width * channels) : i \in all[k].read } :
                          k \in 1..Len(all) }]

\* imageToData(imageData), maxCells being the ceiling: the cells pushed
\* until cellCount reaches the ceiling (86-89) or the loops end (94),
\* whether the warning was logged, and the rows of the image indexed on the
\* way
imageToData(imageData, ceiling) ==
    LET width == imageData.info.width
        channels == imageData.info.channels
        all == Iterations(imageData)
        pushing == SelectSeq(all, Pushes)
        stops == Len(pushing) >= ceiling
        last == pushing[ceiling].cell
        ran == IF stops THEN last.y * width + last.x + 1 ELSE Len(all)
        count == Min(Len(pushing), ceiling)
    IN  [cells |-> SubSeq([k \in 1..count |-> pushing[k].cell], 1, count),
         warned |-> stops,
         rows |-> UNION { { i \div (width * channels) : i \in all[k].read } :
                          k \in 1..ran }]

\* the raw image a decode has resolved with waits for imageToData
Decoded(imageData) ==
    [called |-> FALSE, imageData |-> imageData]

\* generate() awaits this.imageToData(fullSizeImage) (line 35); of the call
\* are kept the number of the cells returned, the warning and the rows read
CallImageToData ==
    /\ running
    /\ ~compositor.called
    /\ LET result == imageToData(compositor.imageData, maxCells)
       IN  compositor' = [called |-> TRUE,
                          imageData |-> compositor.imageData,
                          cellCount |-> Len(result.cells),
                          warned |-> result.warned,
                          rows |-> result.rows]
    /\ UNCHANGED << currentDirectory, files, selectedIndex, scrollOffset, viewMode,
                    scrollMode, terminalWidth, terminalHeight, maxDisplayLines,
                    sinceLastClick, lastClickTarget, activeGallery, stdinHandler,
                    pendingClicks, running, lastError, world, slider, resizeBurst,
                    thumbnailCache, thumbnailCalls, terminal >>

InitCompose ==
    /\ InitBrowser(SmallWorld)
    /\ files = << >> /\ lastError = "none" /\ ~scrollMode
    /\ \E imageData \in PixelBuffers : compositor = Decoded(imageData)

NextCompose == CallImageToData

SpecCompose == InitCompose /\ [][NextCompose]_vars

-----------------------------------------------------------------------------
(* What stdin delivers: the mouse branches of handleKey (lines 1025-1038)  *)
(* and the decoding of handleMouseEvent (lines 1044-1069).  data is the    *)
(* string of one 'data' event, as the sequence of its character codes.     *)

\* NaN: what charCodeAt gives past the end of the string and parseInt for
\* no digits; no character code minus 32 comes near it
NaN == -1000000

\* "\x1b[" and the codes of M, t, A and ;
EscBracket == << 27, 91 >>
CodeM == 77
Codet == 116
CodeA == 65
CodeSemicolon == 59

StartsWith(data, prefix) ==
    Len(data) >= Len(prefix) /\ SubSeq(data, 1, Len(prefix)) = prefix
Includes(data, code) == \E i \in 1..Len(data) : data[i] = code
CharCodeAt(data, i) == IF i >= 0 /\ i < Len(data) THEN data[i + 1] ELSE NaN
\* v - 32, NaN staying NaN
Minus32(v) == IF v = NaN THEN NaN ELSE v - 32

\* data.slice(2, -1)
SliceParameters(data) == SubSeq(data, 3, Len(data) - 1)

\* str.split(';')
RECURSIVE Split(_, _)
Split(codes, part) ==
    IF codes = << >> THEN << part >>
    ELSE IF Head(codes) = CodeSemicolon THEN << part >> \o Split(Tail(codes), << >>)
    ELSE Split(Tail(codes), Append(part, Head(codes)))

\* parseInt(str): the digits str begins with, after a minus if any
IsDigit(code) == code >= 48 /\ code <= 57
RECURSIVE DigitsValue(_, _)
DigitsValue(codes, value) ==
    IF codes = << >> \/ ~IsDigit(Head(codes)) THEN value
    ELSE DigitsValue(Tail(codes), 10 * value + (Head(codes) - 48))
ParseInt(codes) ==
    IF codes # << >> /\ Head(codes) = 45
    THEN IF Len(codes) >= 2 /\ IsDigit(codes[2]) THEN 0 - DigitsValue(Tail(codes), 0)
         ELSE NaN
    ELSE IF codes # << >> /\ IsDigit(Head(codes)) THEN DigitsValue(codes, 0)
    ELSE NaN

\* a decoding that would subtract 32 from the button alone
DecodeMouseEventOffByPosition(data) ==
    [event |-> TRUE, button |-> Minus32(CharCodeAt(data, 3)),
     x |-> CharCodeAt(data, 4), y |-> CharCodeAt(data, 5)]

\* the head of handleMouseEvent (lines 1046-1069): button, x and y, or the
\* return that ends the handler
NoEvent == [event |-> FALSE]
DecodeMouseEvent(data) ==
    IF StartsWith(data, EscBracket \o << CodeM >>)
    THEN [event |-> TRUE, button |-> Minus32(CharCodeAt(data, 3)),
          x |-> Minus32(CharCodeAt(data, 4)), y |-> Minus32(CharCodeAt(data, 5))]
    ELSE IF StartsWith(data, EscBracket) /\ Includes(data, CodeM)
    THEN LET parts == Split(SliceParameters(data), << >>)
         IN  IF Len(parts) >= 3
             THEN [event |-> TRUE, button |-> Minus32(ParseInt(parts[1])),
                   x |-> Minus32(ParseInt(parts[2])), y |-> Minus32(ParseInt(parts[3]))]
             ELSE NoEvent
    ELSE IF Len(data) >= 6
    THEN [event |-> TRUE, button |-> Minus32(CharCodeAt(data, 3)),
          x |-> Minus32(CharCodeAt(data, 4)), y |-> Minus32(CharCodeAt(data, 5))]
    ELSE NoEvent

\* a handler that returns at once, nothing touched
ReturnsAtOnce ==
    /\ Returns(selectedIndex, scrollOffset, lastError)
    /\ intentUnchanged
    /\ UNCHANGED pendingClicks

\* handleMouseEvent(data)
handleMouseEventData(data) ==
    LET report == DecodeMouseEvent(data)
    IN  IF report.event THEN handleMouseEvent(report.button, report.x, report.y)
        ELSE ReturnsAtOnce

\* the branches of handleKey a string reaches that is none of the keys
\* (mouseEnabled is true: the model runs without --no-mouse);
\* handleMouseMovement only sets hoverIndex and writes the hover line
handleKeyOther(data) ==
    IF StartsWith(data, EscBracket \o << CodeM >>) THEN handleMouseEventData(data)
    ELSE IF StartsWith(data, EscBracket) /\ Includes(data, CodeM)
    THEN handleMouseEventData(data)
    ELSE IF StartsWith(data, EscBracket) /\ Includes(data, Codet) THEN ReturnsAtOnce
    ELSE IF StartsWith(data, EscBracket) /\ Includes(data, CodeA)
    THEN handleMouseEventData(data)
    ELSE IF Len(data) > 1 /\ CharCodeAt(data, 0) = 27 THEN handleMouseEventData(data)
    ELSE ReturnsAtOnce

\* String(n) for n >= 0
RECURSIVE DecimalDigits(_)
DecimalDigits(n) ==
    IF n < 10 THEN << 48 + n >> ELSE Append(DecimalDigits(n \div 10), 48 + (n % 10))

\* the reports of a terminal for a button at a cell: ESC [ M b x y and
\* ESC [ p0;p1;p2 M
FixedReport(button, x, y) == EscBracket \o << CodeM, button + 32, x + 32, y + 32 >>
VariableReport(button, x, y) ==
    EscBracket \o DecimalDigits(button + 32) \o << CodeSemicolon >>
               \o DecimalDigits(x + 32) \o << CodeSemicolon >>
               \o DecimalDigits(y + 32) \o << CodeM >>

\* the cells and buttons of the machine's mouse
MouseCells == MouseButtons \X world.xs \X world.ys

\* what stdin may deliver besides the keys: whole reports, reports cut
\* short (a chunk that ends early, parameters that are missing), and escape
\* sequences the browser knows no key for (F1, F5, Ctrl+Up, Shift+Tab, a
\* window-size report)
WholeReports ==
    { FixedReport(c[1], c[2], c[3]) : c \in MouseCells }
    \cup { VariableReport(c[1], c[2], c[3]) : c \in MouseCells }
PartialReports ==
    { SubSeq(FixedReport(button, 1, 1), 1, n) : button \in MouseButtons, n \in 3..5 }
    \cup { EscBracket \o DecimalDigits(button + 32) \o << CodeSemicolon >>
                      \o DecimalDigits(1 + 32) \o << CodeM >> : button \in MouseButtons }
    \cup { EscBracket \o DecimalDigits(button + 32) \o << CodeM >> :
             button \in MouseButtons }
    \cup { EscBracket \o DecimalDigits(button + 32) \o << CodeSemicolon, CodeSemicolon >>
                      \o DecimalDigits(1 + 32) \o << CodeM >> : button \in MouseButtons }
UnknownSequences ==
    { << 27, 79, 80 >>, << 27, 91, 49, 53, 126 >>, << 27, 91, 49, 59, 53, 65 >>,
      << 27, 91, 90 >>, << 27, 91, 56, 59, 50, 52, 59, 56, 48, 116 >> }
StdinReports == WholeReports \cup PartialReports \cup UnknownSequences

\* a 'data' event of stdin that is none of the keys
StdinDelivers(data) ==
    /\ BrowserInput
    /\ handleKeyOther(data)
    /\ Survives
    /\ UNCHANGED << terminalWidth, terminalHeight, maxDisplayLines, stdinHandler,
                    world, slider, extras >>

StdinData == \E data \in StdinReports : StdinDelivers(data)

InputWorld ==
    [tree |-> ( << >> :> { ListingThree } @@
                << "Sub" >> :> { ListingFiles } ),
     columns |-> {70}, rows |-> {24, 43},
     xs |-> {1, 36}, ys |-> {1, 18}]

InitInput == InitIn(InputWorld)

NextInput ==
    \/ StdinData \/ ClickResume \/ KeyToggleView
    \/ GalleryDecodeDone \/ GalleryEscape

SpecInput == InitInput /\ [][NextInput]_vars

-----------------------------------------------------------------------------
(* Where the renderer draws the entries: the cells of the screen, column x *)
(* and line y counted from 1, the cursor being sent home before the rows   *)
(* (lines 376-405, 496-502, 583-590, 705)                                   *)

NoEntry == [drawn |-> FALSE]

\* the entry whose tile (grid) or line (list) covers the cell, scrollOffset
\* being what the last render left
DrawnEntry(x, y) ==
    IF viewMode = "grid"
    THEN LET b == GridScrollBounds(terminalWidth, maxDisplayLines, Len(files))
             d == calculateGridDimensions(terminalWidth, Len(files))
             row == (y - 1) \div d.itemHeight
             col == (x - 1) \div (d.itemWidth + d.gapWidth)
             index == row * d.columns + col + scrollOffset
         IN  IF /\ y >= 1 /\ row < b.actualVisibleRows
                /\ x >= 1 /\ col < d.columns
                /\ (x - 1) % (d.itemWidth + d.gapWidth) < d.itemWidth
                /\ index < Len(files)
             THEN [drawn |-> TRUE, index |-> index]
             ELSE NoEntry
    ELSE LET actualDisplayLines == Min(maxDisplayLines, Len(files) - scrollOffset)
         IN  IF y >= 1 /\ y <= actualDisplayLines /\ x >= 1 /\ x <= terminalWidth
             THEN [drawn |-> TRUE, index |-> scrollOffset + y - 1]
             ELSE NoEntry

-----------------------------------------------------------------------------
(* What the handlers read of this.files *)

\* handleEnterKey: files[selectedIndex], behind its length test (1302-1304)
EnterKeyReads == IF Len(files) = 0 THEN {} ELSE {selectedIndex}

\* a left press at (x, y): handleMouseEvent's range test, then
\* handleLeftMouseClick behind its length test (1124, 1276-1278)
LeftClickReads(x, y) ==
    LET adjustedY == y - 1
        listIndex == HitIndex(x, adjustedY)
    IN  IF /\ adjustedY >= 0 /\ adjustedY < maxDisplayLines
           /\ listIndex >= 0 /\ listIndex < Len(files)
           /\ Len(files) # 0
        THEN {listIndex}
        ELSE {}

\* a render in the given view mode
RenderReads(view) ==
    RenderIndices(view,
                  RenderScroll(view, scrollOffset, terminalWidth, maxDisplayLines,
                               Len(files)),
                  terminalWidth, maxDisplayLines, Len(files))

-----------------------------------------------------------------------------
(* Properties *)

ValidSelection == selectedIndex >= 0 /\ selectedIndex < Len(files)

\* the scroll bound as the specification words it
SpecMaxScrollOffset ==
    IF viewMode = "grid"
    THEN LET b == GridScrollBounds(terminalWidth, maxDisplayLines, Len(files))
         IN  Max(0, b.rows - b.maxVisibleRows) * b.columns
    ELSE Max(0, Len(files) - maxDisplayLines)

ValidScroll == scrollOffset >= 0 /\ scrollOffset <= SpecMaxScrollOffset

\* the window [off, off + visibleRows x columns) of the current view
WindowSize ==
    IF viewMode = "grid"
    THEN LET b == GridScrollBounds(terminalWidth, maxDisplayLines, Len(files))
         IN  b.maxVisibleRows * b.columns
    ELSE maxDisplayLines

WindowColumns ==
    IF viewMode = "grid"
    THEN calculateGridDimensions(terminalWidth, Len(files)).columns
    ELSE 1

InWindow(i, off) == i >= off /\ i < off + WindowSize

Clamp(v, lo, hi) == IF v < lo THEN lo ELSE IF v > hi THEN hi ELSE v

Abs(v) == IF v < 0 THEN 0 - v ELSE v

\* a key that calls moveSelection(direction)
MoveStep(direction) ==
    /\ BrowserInput
    /\ direction \in (IF viewMode = "grid" THEN {-2, -1, 1, 2} ELSE {-1, 1})
    /\ ~(viewMode = "grid" /\ scrollMode /\ direction \in {-1, 1})
    /\ moveSelection(direction)
    /\ intentUnchanged /\ KeyFrame

\* a key or wheel report that scrolls by one row
ScrollStep(direction) ==
    /\ BrowserInput
    /\ \/ viewMode = "grid" /\ scrollGrid(direction)
       \/ handleScrollWheel(direction)
    /\ intentUnchanged
    /\ Survives
    /\ UNCHANGED << terminalWidth, terminalHeight, maxDisplayLines, stdinHandler,
                    pendingClicks, world, slider, extras >>

\* the offsets a click may be acted on with
ClickOffsets ==
    { scrollOffset,
      RenderScroll(viewMode, scrollOffset, terminalWidth, maxDisplayLines, Len(files)) }

\* Enter on the entry at index i
EnterActivates(i) == selectedIndex = i /\ handleEnterKey /\ KeyEnter

\* a left click acted on for the entry at index i, at once or on resuming
LeftClickActivates(i) ==
    /\ \E off \in ClickOffsets : handleLeftMouseClick(i, off)
    /\ Mouse \/ ClickResume

\* a right click acted on for the entry at index i
RightClickActivates(i) ==
    /\ \E off \in ClickOffsets : handleRightMouseClick(i, off)
    /\ Mouse \/ ClickResume

\* the recorded intent names the entry and is younger than the window
IntentMatches(e) ==
    lastClickTarget = e.path /\ sinceLastClick < doubleClickThreshold

\* the step opens entry e
Opened(e) ==
    IF e.type = "directory" THEN currentDirectory' = e.path
    ELSE /\ activeGallery'.phase = "loading"
         /\ activeGallery'.imagePaths[activeGallery'.currentIndex + 1] = e.path

NoNavigation == UNCHANGED << currentDirectory, files, activeGallery >>

IsMediaEntry(item) ==
    item.type = "file" /\ ToLowerCase(ExtName(item.name)) \in SUPPORTED_EXTENSIONS

\* C1: while the browser runs with a non-empty list, selectedIndex is an
\* index of the list
C1_SelectionInRange == (running /\ files # << >>) => ValidSelection

\* C2: under moveSelection, navigateToDirectory and goBack alone the
\* selection is an index of a non-empty list, and with an empty list
\* neither a render in either view mode nor Enter nor a left click reads
\* an entry
C2_NavKeepsSelection ==
    /\ Len(files) >= 1 => ValidSelection
    /\ Len(files) = 0 =>
          /\ RenderReads("list") = {}
          /\ RenderReads("grid") = {}
          /\ EnterKeyReads = {}
          /\ \A x \in world.xs, y \in world.ys : LeftClickReads(x, y) = {}

\* C2's case: a directory with entries was left for an empty one
C2_Witness_EmptyDirectory ==
    /\ running /\ currentDirectory = << "Sub" >> /\ files = << >>
    /\ selectedIndex = 0

\* C3: after every handled event scrollOffset is within [0, maxScrollOffset]
\* of the current size, entry count and view mode
C3_ScrollInRange == running => ValidScroll

\* C4: Enter or a left click on entry e opens e and clears the intent when
\* the recorded intent names e and is younger than 500 ms; otherwise it
\* records the intent (e, now) and navigates nowhere
C4_Debounce ==
    [][ \A i \in 0..(Len(files) - 1) :
          (EnterActivates(i) \/ LeftClickActivates(i)) =>
             LET e == files[i + 1]
             IN  IF lastClickTarget = e.path /\ sinceLastClick < doubleClickThreshold
                 THEN /\ Opened(e)
                      /\ lastClickTarget' = NoTarget
                      /\ sinceLastClick' = doubleClickThreshold
                 ELSE /\ lastClickTarget' = e.path
                      /\ sinceLastClick' = 0
                      /\ NoNavigation ]_vars

\* C4's case: the directory was armed one clock step ago, and Enter now
\* opens it and clears the intent
C4_Witness_SecondEnterOpens ==
    /\ running
    /\ lastClickTarget = << "Sub" >>
    /\ sinceLastClick = TickStep
    /\ ENABLED ( /\ EnterActivates(0)
                 /\ currentDirectory' = << "Sub" >>
                 /\ lastClickTarget' = NoTarget )

\* C5: no step enters the directory of an entry or starts a gallery unless
\* the recorded intent names that entry and is younger than 500 ms
C5_OnlyDebouncedOpens ==
    [][ \A i \in 0..(Len(files) - 1) :
          LET e == files[i + 1]
          IN  ( /\ running
                /\ \/ /\ e.type = "directory"
                      /\ currentDirectory' = e.path
                   \/ /\ e.type = "file"
                      /\ activeGallery' # activeGallery
                      /\ Opened(e) )
              => IntentMatches(e) ]_vars

\* C6: opening a directory entry changes to its path and starts no gallery;
\* opening a media file starts a gallery over the paths of the media files
\* of the list, in list order, at the position of the file; the view mode,
\* the scroll mode and the size stay, and a gallery leaves the directory,
\* the list and the selection as they are
C6_Activate ==
    [][ \A i \in 0..(Len(files) - 1) :
          LET e == files[i + 1]
              media == SelectSeq(files, IsMediaEntry)
              before == { k \in 1..i : IsMediaEntry(files[k]) }
          IN  ( \/ IntentMatches(e) /\ (EnterActivates(i) \/ LeftClickActivates(i))
                \/ RightClickActivates(i) )
              => /\ UNCHANGED << viewMode, scrollMode, terminalWidth, terminalHeight,
                                 maxDisplayLines >>
                 /\ IF e.type = "directory"
                    THEN /\ currentDirectory' = e.path
                         /\ UNCHANGED activeGallery
                    ELSE /\ activeGallery' =
                               [phase |-> "loading",
                                imagePaths |-> [k \in 1..Len(media) |-> media[k].path],
                                currentIndex |-> Cardinality(before)]
                         /\ UNCHANGED << currentDirectory, files >>
                         /\ selectedIndex' = i ]_vars

\* C6's case: the second of two media files was opened from a list that
\* also holds a directory
C6_Witness_GalleryOfSiblings ==
    /\ running
    /\ Len(files) = 3
    /\ activeGallery = [phase |-> "loading",
                        imagePaths |-> << << "a.png" >>, << "B.jpg" >> >>,
                        currentIndex |-> 1]

\* C7: navigateToDirectory leaves selectedIndex = 0 and scrollOffset = 0
\* and a list made of entries of the new directory only; when the listing
\* fails the list is empty, the failure is reported, the process lives and
\* the input handler stays
C7_ChangeDirectory ==
    [][ \A ctx \in {"key", "mouse"}, p \in DOMAIN world.tree :
          \A outcome \in ListingOutcomes(p) :
             ( /\ currentDirectory' # currentDirectory
               /\ navigateToDirectoryWith(ctx, p, outcome)
               /\ KeyEnter \/ KeyBackspace \/ Mouse \/ ClickResume )
             => /\ currentDirectory' = p
                /\ selectedIndex' = 0
                /\ scrollOffset' = 0
                /\ \A k \in 1..Len(files') : PathDirname(files'[k].path) = p
                /\ ~outcome.ok =>
                      /\ files' = << >>
                      /\ lastError' = "reported"
                      /\ running'
                      /\ stdinHandler' = stdinHandler ]_vars

\* C7's case: the browser entered a directory whose listing failed
C7_Witness_FailedListing ==
    /\ running
    /\ currentDirectory = << "Sub" >>
    /\ files = << >>
    /\ lastError = "reported"
    /\ stdinHandler = "browser"
    /\ selectedIndex = 0 /\ scrollOffset = 0

\* C8: moveSelection moves the selection by its delta (list: -1 / +1; grid:
\* -columns, +columns, -1, +1), clamped to [0, len - 1], and a move that
\* cannot change the index leaves selectedIndex and scrollOffset alone
C8_MoveClamped ==
    \A direction \in {-2, -1, 1, 2} :
       LET columns == calculateGridDimensions(terminalWidth, Len(files)).columns
           delta == IF viewMode = "list" THEN direction
                    ELSE IF direction = -1 THEN 0 - columns
                    ELSE IF direction = 1 THEN columns
                    ELSE IF direction = -2 THEN -1
                    ELSE 1
           target == Clamp(selectedIndex + delta, 0, Len(files) - 1)
       IN  Len(files) >= 1 =>
             ~ ENABLED ( /\ MoveStep(direction)
                         /\ ~ ( /\ selectedIndex' = target
                                /\ target = selectedIndex =>
                                      scrollOffset' = scrollOffset ) )

\* C9: once moveSelection has changed the selection, the selected entry is
\* inside the window; scrollOffset stays when the entry was inside already
\* and otherwise moves no further than the nearest offset at a row start
\* that brings it inside
C9_MinimalScroll ==
    [][ \A direction \in {-2, -1, 1, 2} :
          ( /\ MoveStep(direction)
            /\ ValidSelection /\ ValidScroll /\ WindowSize >= 1
            /\ selectedIndex' # selectedIndex )
          => /\ selectedIndex' >= scrollOffset'
             /\ selectedIndex' < scrollOffset' + WindowSize
             /\ InWindow(selectedIndex', scrollOffset) => scrollOffset' = scrollOffset
             /\ \A row \in 0..Len(files) :
                   LET o == row * WindowColumns
                   IN  InWindow(selectedIndex', o) =>
                          Abs(scrollOffset' - scrollOffset) <= Abs(o - scrollOffset) ]_vars

\* C10: a scroll moves scrollOffset by one row (columns entries in the
\* grid, one in the list) clamped to [0, maxScrollOffset]; afterwards the
\* selection is inside the window and an index of the list, and it moved
\* only if it was outside
C10_ScrollKeepsSelectionVisible ==
    [][ \A direction \in {-1, 1} :
          ( /\ ScrollStep(direction)
            /\ Len(files) >= 1 /\ ValidSelection /\ ValidScroll
            /\ InWindow(selectedIndex, scrollOffset) )
          => LET columns == WindowColumns
             IN  /\ scrollOffset' = Clamp(scrollOffset + direction * columns, 0,
                                          SpecMaxScrollOffset)
                 /\ selectedIndex' >= scrollOffset'
                 /\ selectedIndex' < scrollOffset' + WindowSize
                 /\ selectedIndex' < Len(files)
                 /\ InWindow(selectedIndex, scrollOffset') =>
                       selectedIndex' = selectedIndex ]_vars

\* C11: goBack() at the root (the parent path equals the current path)
\* changes none of currentDirectory, files, selectedIndex and scrollOffset;
\* anywhere else it does what changeDirectory(parent) does: currentDirectory
\* is the parent, selectedIndex and scrollOffset are 0, files is a fresh
\* listing of the parent (empty when the listing fails).
C11_GoBack ==
    [][ KeyBackspace =>
          LET parent == PathDirname(currentDirectory)
          IN  IF parent = currentDirectory
              THEN UNCHANGED << currentDirectory, files, selectedIndex, scrollOffset >>
              ELSE /\ currentDirectory' = parent
                   /\ selectedIndex' = 0
                   /\ scrollOffset' = 0
                   /\ \E outcome \in ListingOutcomes(parent) :
                         files' = getMediaFiles(parent, outcome) ]_vars

\* the browser takes keys in Sub with a later entry selected: Backspace
\* there is the goBack that has a selection to reset
C11_Witness_LeavesSub ==
    /\ BrowserInput
    /\ currentDirectory = << "Sub" >>
    /\ PathDirname(currentDirectory) # currentDirectory
    /\ selectedIndex > 0

\* C12: toggleViewMode() turns the list view into the grid view and the
\* grid view into the list view (so two of them give the first view back),
\* leaves scrollOffset at 0, and leaves selectedIndex, files,
\* currentDirectory, scrollMode and the activation intent as they were
C12_ToggleViewMode ==
    [][ KeyToggleView =>
          /\ viewMode \in {"list", "grid"} /\ viewMode' \in {"list", "grid"}
          /\ viewMode' # viewMode
          /\ scrollOffset' = 0
          /\ UNCHANGED << selectedIndex, files, currentDirectory, scrollMode,
                          sinceLastClick, lastClickTarget >> ]_vars

\* the view is toggled while scrolled down, with a later entry selected
C12_Witness_ToggleWhileScrolled ==
    /\ scrollOffset > 0
    /\ selectedIndex > 0
    /\ ENABLED (KeyToggleView /\ scrollOffset' = 0 /\ selectedIndex' = selectedIndex)

\* C13: in every reachable state files is ordered: every directory comes
\* before every file, and within each kind the names do not decrease in the
\* locale's order
C13_EntriesOrdered ==
    \A i \in 1..Len(files), j \in 1..Len(files) :
       i < j =>
          /\ files[j].type = "directory" => files[i].type = "directory"
          /\ files[i].type = files[j].type =>
                LocaleCompare(files[i].name, files[j].name) <= 0

\* a listing that came as B.jpg, Sub, b.txt, a.png is held as Sub, a.png, B.jpg
C13_Witness_MixedListing ==
    /\ running
    /\ Len(files) = 3
    /\ files[1].type = "directory" /\ files[1].name = "Sub"
    /\ files[2].type = "file" /\ files[2].name = "a.png"
    /\ files[3].type = "file" /\ files[3].name = "B.jpg"
    /\ ListingThree \in ListingsOf(currentDirectory)

\* the names of a list of entries, in its order
Names(fs) == [k \in 1..Len(fs) |-> fs[k].name]

\* C14: changeDirectory keeps every item of the listing: once a directory
\* whose listing is b.txt, a.png, Sub (Sub a directory) has been entered,
\* files is exactly Sub, a.png, b.txt
C14_ScenarioListing ==
    [][ ( /\ currentDirectory' # currentDirectory
          /\ ListingScenario \in ListingsOf(currentDirectory')
          /\ navigateToDirectoryWith("key", currentDirectory',
                                     [ok |-> TRUE, list |-> ListingScenario]) )
        => Names(files') = << "Sub", "a.png", "b.txt" >> ]_vars

\* the spec's NavigationState
NavigationState ==
    << selectedIndex, scrollOffset, viewMode, scrollMode, currentDirectory, files >>

\* C15: while a gallery is active (activeGallery set before and after the
\* step, its first decode pending or failed included) no event changes
\* selectedIndex, scrollOffset, viewMode, scrollMode, currentDirectory or files
C15_GallerySuspendsBrowsing ==
    [][ (activeGallery # NoGallery /\ activeGallery' # NoGallery)
        => UNCHANGED NavigationState ]_vars

\* C16: once Escape has left the gallery (activeGallery is null again), the
\* browser's key handler is the one installed and no gallery code is
\* running or about to: no showCurrentImage of the gallery is in flight,
\* whatever events (a terminal resize included) have come since
C16_ExitRestoresBrowsing ==
    (running /\ activeGallery = NoGallery) =>
       /\ stdinHandler = "browser"
       /\ slider.constructed => slider.calls = << >>

\* a next() / previous() of the gallery has run to its end: the
\* showCurrentImage its key handler awaited has settled
NavigationCompletes ==
    /\ slider.constructed /\ slider'.constructed
    /\ slider.isNavigating /\ ~slider'.isNavigating
    /\ \E k \in 1..Len(slider.calls) :
          /\ slider.calls[k].by = "key"
          /\ slider'.calls = RemoveAt(slider.calls, k)

\* C17: the gallery's currentIndex is always within [0, len(imagePaths) - 1];
\* next() / previous() move it by +1 / -1 clamped to that range (no
\* wraparound); and when a move has changed it and run to its end,
\* imageScrollOffset is 0 and the composed grid is the one of
\* imagePaths[currentIndex] (or none, the decode having failed)
C17_GalleryNavigation ==
    [][ /\ slider'.constructed =>
              /\ slider'.currentIndex >= 0
              /\ slider'.currentIndex < Len(slider'.imagePaths)
        /\ \A delta \in {-1, 1} :
              (SliderMove(delta) /\ ~slider.isNavigating) =>
                 slider'.currentIndex =
                    Clamp(slider.currentIndex + delta, 0, Len(slider.imagePaths) - 1)
        /\ NavigationCompletes =>
              /\ slider'.scrollOffset = 0
              /\ slider'.imageData.index \in {slider'.currentIndex, NoImage.index} ]_vars

\* C18: in every state of an open gallery with no decode in flight,
\* 0 <= imageScrollOffset <= max(0, height of the composed grid - rows
\* available for it), the rows being those of the current terminal height
C18_GalleryScrollInRange ==
    (running /\ activeGallery # NoGallery /\ slider.constructed
       /\ slider.calls = << >>) =>
       /\ slider.scrollOffset >= 0
       /\ slider.scrollOffset <=
             Max(0, slider.imageData.height - (terminalHeight - galleryFooterLines))

\* C19: a decode failure in an open gallery (its first decode, or the one
\* of a next / previous, which leaves the grid of another index) leaves it
\* navigable: once no decode is in flight, the keys go to the gallery's
\* handler and it takes them (left / right change currentIndex, Escape
\* exits)
C19_DecodeFailureRecoverable ==
    ( /\ running /\ activeGallery # NoGallery /\ slider.constructed
      /\ slider.calls = << >>
      /\ \/ activeGallery.phase = "failed"
         \/ slider.imageData.index # slider.currentIndex ) =>
       /\ stdinHandler = "gallery"
       /\ ~slider.isNavigating

\* C20: events run to completion: while a handler of the browser is
\* suspended in a render or decode (and stays so over the step), no other
\* handler changes selectedIndex, scrollOffset, files, currentDirectory or
\* viewMode
C20_RunToCompletion ==
    [][ (pendingClicks # << >> /\ pendingClicks' = pendingClicks)
        => UNCHANGED << selectedIndex, scrollOffset, files, currentDirectory,
                        viewMode >> ]_vars

\* C21: stale decodes are discarded: a grid the gallery stores as imageData
\* was decoded from imagePaths[currentIndex], and a grid it scrolls (and so
\* draws) is the one of imagePaths[currentIndex]
C21_StaleDecodesDiscarded ==
    [][ (slider.constructed /\ slider'.constructed) =>
          /\ (slider'.imageData # slider.imageData /\ slider'.imageData # NoImage) =>
                slider'.imageData.index = slider'.currentIndex
          /\ ((SliderUp \/ SliderDown) /\ slider'.scrollOffset # slider.scrollOffset) =>
                slider.imageData.index = slider.currentIndex ]_vars

\* C22: resize notifications are debounced: a burst of notifications less
\* than the debounce delay apart causes no more than one render, and once
\* the burst is over it has caused exactly one
C22_ResizeDebounced ==
    running =>
       /\ resizeBurst.renders <= 1
       /\ (resizeBurst.events >= 1 /\ resizeBurst.age >= resizeDebounce) =>
             resizeBurst.renders = 1

\* C23: no handler ends in an uncaught exception or an unhandled rejection:
\* a failure of the decoder or of the listing is reported, never fatal
C23_NothingTerminates == lastError # "uncaught"


\* C24: whatever the number of generateThumbnail calls for a path, calls of
\* overlapping renders included, a single decode of the path resolves and
\* every call is handed the same thumbnail.
C24_ThumbnailDecodedOnce ==
    \A imagePath \in DOMAIN thumbnailCalls.resolved :
        /\ thumbnailCalls.resolved[imagePath] <= 1
        /\ Cardinality(MapGet(thumbnailCalls.returned, imagePath, {})) <= 1


\* C25: a decode that failed is never cached (the cache holds only paths a
\* decode of which resolved), and a decode failure for a visible tile of the
\* grid, the icon of a directory included, does not reject the render: the
\* tile falls back to text and the process lives.
C25_DecodeFailureLocal ==
    /\ \A imagePath \in DOMAIN thumbnailCache :
          MapGet(thumbnailCalls.resolved, imagePath, 0) >= 1
    /\ RenderMayThrow(viewMode, scrollOffset, terminalWidth, maxDisplayLines, files)
          => lastError # "uncaught"


\* C26: the thumbnail cache only grows: in every step of the browser (a
\* change of directory, a return to the parent, a refresh, a toggle of the
\* view, a thumbnail request or the settling of its decode) a path that is
\* mapped stays mapped, and to the same thumbnail.
C26_ThumbnailCacheOnlyGrows ==
    [][ \A imagePath \in DOMAIN thumbnailCache :
           /\ imagePath \in DOMAIN thumbnailCache'
           /\ thumbnailCache'[imagePath] = thumbnailCache[imagePath] ]_vars


\* the cells imageToData returns for the image it was called with
Cells == imageToData(compositor.imageData, maxCells).cells

\* every pixel of the image imageToData was given is opaque
AllOpaque ==
    LET info == compositor.imageData.info
    IN  \/ info.channels = 3
        \/ \A p \in 0..(info.width * info.height - 1) :
              compositor.imageData.alphas[p] >= opaqueThreshold

\* C27: for an image all of whose pixels are opaque, imageToData returns
\* W * floor(H / 2) cells, or maxCells of them when that is less, and every
\* cell has the character UPPER_HALF_BLOCK.
C27_OpaqueImageCells ==
    (compositor.called /\ AllOpaque) =>
        LET info == compositor.imageData.info
        IN  /\ compositor.cellCount = Min(info.width * (info.height \div 2), maxCells)
            /\ LET cells == Cells
               IN  \A k \in 1..Len(cells) : cells[k].char = UPPER_HALF_BLOCK

\* an image with an alpha channel, three rows of opaque pixels, has been
\* turned into the cells of its one pair of rows
C27_Witness_OpaqueOddHeight ==
    /\ compositor.called /\ AllOpaque
    /\ compositor.imageData.info.channels = 4
    /\ compositor.imageData.info.height = 3
    /\ compositor.cellCount = 1

\* C27 as first stated: W * floor(H / 2) cells whatever the size of the image
C27_Stated_OpaqueImageCells ==
    (compositor.called /\ AllOpaque) =>
        LET info == compositor.imageData.info
        IN  /\ compositor.cellCount = info.width * (info.height \div 2)
            /\ LET cells == Cells
               IN  \A k \in 1..Len(cells) : cells[k].char = UPPER_HALF_BLOCK

\* the alpha of the pixel at column x of row y of the image imageToData was
\* given (255 without an alpha channel), and its red, green and blue
AlphaOf(x, y) ==
    LET info == compositor.imageData.info
    IN  IF info.channels = 4 THEN compositor.imageData.alphas[y * info.width + x]
        ELSE 255
ColourOf(x, y) ==
    LET info == compositor.imageData.info
        at == (y * info.width + x) * info.channels
    IN  << DataAt(compositor.imageData, at), DataAt(compositor.imageData, at + 1),
           DataAt(compositor.imageData, at + 2) >>

\* what the pair of rows (2r, 2r + 1) is to give at column x: no cell when
\* neither pixel is opaque
NoCell == [char |-> "none"]
CellOfPair(x, r) ==
    LET upperOpaque == AlphaOf(x, 2 * r) >= 128
        lowerOpaque == AlphaOf(x, 2 * r + 1) >= 128
    IN  IF upperOpaque /\ lowerOpaque
        THEN [x |-> x, y |-> r, char |-> UPPER_HALF_BLOCK,
              ansi |-> << << 38, 2 >> \o ColourOf(x, 2 * r),
                          << 48, 2 >> \o ColourOf(x, 2 * r + 1) >>]
        ELSE IF upperOpaque
        THEN [x |-> x, y |-> r, char |-> UPPER_HALF_BLOCK,
              ansi |-> << << 38, 2 >> \o ColourOf(x, 2 * r) >>]
        ELSE IF lowerOpaque
        THEN [x |-> x, y |-> r, char |-> LOWER_HALF_BLOCK,
              ansi |-> << << 38, 2 >> \o ColourOf(x, 2 * r + 1) >>]
        ELSE NoCell
CellsOfPairs ==
    LET info == compositor.imageData.info
    IN  { CellOfPair(pair[1], pair[2]) :
            pair \in (0..(info.width - 1)) \X (0..((info.height \div 2) - 1)) }
        \ { NoCell }

\* C28: every cell imageToData returns is the one its column and pair of rows
\* are to give (both pixels opaque: the upper half block, foreground the
\* upper colour, background the lower; the upper alone: the upper half block,
\* foreground the upper colour; the lower alone: the lower half block,
\* foreground the lower colour), a pair with no opaque pixel gives no cell,
\* and unless the ceiling stopped the scan every other pair gives its cell.
C28_CellPerPair ==
    compositor.called =>
        LET cells == Cells
            emitted == { cells[k] : k \in 1..Len(cells) }
            due == CellsOfPairs
        IN  /\ Cardinality(emitted) = Len(cells)
            /\ emitted \cup due = due
            /\ ~compositor.warned => emitted = due

\* a column of four pixels, the upper alone opaque in the first pair, the
\* lower alone in the second, has given its two cells
C28_Witness_UpperThenLower ==
    /\ compositor.called
    /\ compositor.imageData.info = [width |-> 1, height |-> 4, channels |-> 4]
    /\ compositor.imageData.alphas = (0 :> 128 @@ 1 :> 0 @@ 2 :> 127 @@ 3 :> 128)
    /\ compositor.cellCount = 2

\* C28 as first stated: every pair with an opaque pixel gives its cell
C28_Stated_CellPerPair ==
    compositor.called =>
        LET cells == Cells
            emitted == { cells[k] : k \in 1..Len(cells) }
        IN  /\ Cardinality(emitted) = Len(cells)
            /\ emitted = CellsOfPairs


\* C29: every cell imageToData returns has x below the width and y below
\* ceil(H / 2), its colour is the one of a pixel of column x in the pair of
\* rows y, and no row of the image beyond the last (H - 1) is indexed: the
\* rows indexed are those of the pairs, a last odd row is not among them.
C29_CellsWithinImage ==
    compositor.called =>
        LET info == compositor.imageData.info
            cells == Cells
        IN  /\ \A k \in 1..Len(cells) :
                  /\ cells[k].x >= 0 /\ cells[k].x < info.width
                  /\ cells[k].y >= 0 /\ cells[k].y < CeilDiv(info.height, 2)
                  /\ SubSeq(cells[k].ansi[1], 3, 5) =
                        ColourOf(cells[k].x,
                                 IF cells[k].char = UPPER_HALF_BLOCK
                                 THEN 2 * cells[k].y ELSE 2 * cells[k].y + 1)
            /\ \A row \in compositor.rows :
                  /\ row >= 0 /\ row <= info.height - 1
                  /\ info.height % 2 = 1 => row # info.height - 1

\* an image of two columns and three rows has given a cell in its second
\* column, and its two first rows were indexed
C29_Witness_OddHeightSecondColumn ==
    /\ compositor.called
    /\ compositor.imageData.info.width = 2
    /\ compositor.imageData.info.height = 3
    /\ compositor.rows = {0, 1}
    /\ \E k \in 1..compositor.cellCount : Cells[k].x = 1


\* where the scan of the two loops meets the pair of a cell (from 1)
ScanPosition(cell) == cell.y * compositor.imageData.info.width + cell.x + 1

\* C30: imageToData never returns more than maxCells cells.  When the pairs
\* that give a cell number maxCells or more, it logs the warning and returns
\* the first maxCells of them in the order of the scan, none left out, as
\* the result of the call, which fails nothing.
C30_CellCeiling ==
    compositor.called =>
        LET cells == Cells
            due == CellsOfPairs
        IN  /\ compositor.cellCount = Len(cells)
            /\ compositor.cellCount <= maxCells
            /\ compositor.warned <=> Cardinality(due) >= maxCells
            /\ compositor.warned =>
                  /\ compositor.cellCount = maxCells
                  /\ \A k \in 1..(Len(cells) - 1) :
                        ScanPosition(cells[k]) < ScanPosition(cells[k + 1])
                  /\ Cardinality({ cell \in due :
                        ScanPosition(cell) <= ScanPosition(cells[Len(cells)]) })
                        = maxCells
            /\ running /\ lastError = "none"

\* an image with more pairs of opaque pixels than maxCells has given
\* maxCells cells, and the warning was logged
C30_Witness_CeilingReached ==
    /\ compositor.called
    /\ compositor.warned
    /\ compositor.cellCount = maxCells
    /\ compositor.imageData.info.width * (compositor.imageData.info.height \div 2)
          > maxCells


\* C31: for every width up to the terminal's, the smallest included, and
\* every number of entries up to the listing's, calculateGridDimensions gives
\* columns = max(1, floor((width - 2) / 34)), which is never below 1, and
\* rows = ceil(itemCount / columns).
C31_LayoutGrid ==
    \A w \in 0..terminalWidth, n \in 0..Len(files) :
        LET d == calculateGridDimensions(w, n)
        IN  /\ d.columns >= 1
            /\ d.columns = 1 \/ 34 * d.columns <= w - 2
            /\ 34 * (d.columns + 1) > w - 2
            /\ d.rows * d.columns >= n
            /\ (d.rows - 1) * d.columns < n
            /\ d.rows >= 0

\* a grid of four columns and three rows has been laid out and scrolled
C31_Witness_FourColumns ==
    /\ viewMode = "grid"
    /\ terminalWidth = 138 /\ Len(files) = 10
    /\ calculateGridDimensions(terminalWidth, Len(files)).columns = 4
    /\ calculateGridDimensions(terminalWidth, Len(files)).rows = 3
    /\ scrollOffset = 4


\* maxScrollOffset as the layout gives it for a state: in the grid,
\* max(0, rows - floor(maxDisplayLines / tileHeight)) x columns; in the
\* list, the same with one column and lines of height 1
LayoutMaxScrollOffset(view, w, mdl, n) ==
    LET d == calculateGridDimensions(w, n)
        columns == IF view = "grid" THEN d.columns ELSE 1
        rows == IF view = "grid" THEN d.rows ELSE n
        tileHeight == IF view = "grid" THEN d.itemHeight ELSE 1
    IN  Max(0, rows - (mdl \div tileHeight)) * columns

\* C32: the operations that bound scrolling use one maxScrollOffset, that of
\* the layout.  In the grid every step leaves scrollOffset within it (the
\* render clamps what moveSelection left) and a page down moves by one row
\* up to it; in the list the wheel moves by one line up to it, and a key or
\* wheel step from an offset within it leaves an offset within it.
C32_OneScrollBound ==
    [][ LET bound == LayoutMaxScrollOffset(viewMode', terminalWidth', maxDisplayLines',
                                           Len(files'))
            columns == calculateGridDimensions(terminalWidth, Len(files)).columns
        IN  /\ viewMode' = "grid" => (scrollOffset' >= 0 /\ scrollOffset' <= bound)
            /\ (viewMode = "grid" /\ KeyPageDown) =>
                  scrollOffset' = Min(bound, scrollOffset + columns)
            /\ (viewMode = "list" /\ viewMode' = "list"
                  /\ scrollOffset' > scrollOffset /\ Wheel) =>
                  scrollOffset' = Min(bound, scrollOffset + 1)
            /\ (viewMode = "list" /\ viewMode' = "list" /\ files' = files
                  /\ maxDisplayLines' = maxDisplayLines
                  /\ scrollOffset >= 0 /\ scrollOffset <= bound) =>
                  (scrollOffset' >= 0 /\ scrollOffset' <= bound) ]_vars

\* a grid of two columns or more is scrolled to its last rows
C32_Witness_GridScrolledToEnd ==
    /\ viewMode = "grid"
    /\ calculateGridDimensions(terminalWidth, Len(files)).columns >= 2
    /\ scrollOffset > 0
    /\ scrollOffset = LayoutMaxScrollOffset(viewMode, terminalWidth, maxDisplayLines,
                                            Len(files))

\* a decoded report
Report(button, x, y) == [event |-> TRUE, button |-> button, x |-> x, y |-> y]

\* variable-form reports of a cell that carry one or two parameters only
ShortVariableReports(button, x) ==
    { EscBracket \o DecimalDigits(button + 32) \o << CodeM >>,
      EscBracket \o DecimalDigits(button + 32) \o << CodeSemicolon >>
                 \o DecimalDigits(x + 32) \o << CodeM >> }

\* C33: a mouse report is decoded by subtracting 32 from each of its three
\* values: ESC [ M b x y gives (b - 32, x - 32, y - 32), so the bytes
\* 35, 33, 34 give button 3 at column 1, line 2; ESC [ p0;p1;p2 M gives the
\* same from its decimal parameters; a variable-form report with fewer than
\* three parameters gives no event.
C33_MouseReportsDecoded ==
    /\ DecodeMouseEvent(EscBracket \o << CodeM, 35, 33, 34 >>) = Report(3, 1, 2)
    /\ \A c \in MouseCells :
          /\ DecodeMouseEvent(FixedReport(c[1], c[2], c[3])) = Report(c[1], c[2], c[3])
          /\ DecodeMouseEvent(VariableReport(c[1], c[2], c[3]))
                = Report(c[1], c[2], c[3])
          /\ \A data \in ShortVariableReports(c[1], c[2]) :
                DecodeMouseEvent(data) = NoEvent

\* a report of a left press on the second tile of the first row has been
\* decoded and has moved the selection there
C33_Witness_SecondTilePressed ==
    /\ viewMode = "grid" /\ scrollOffset = 0 /\ stdinHandler = "browser"
    /\ 36 \in world.xs /\ 1 \in world.ys
    /\ HitIndex(36, 0) = 1
    /\ selectedIndex = 1

\* what one row of the current view is worth in scrollOffset
RowStep ==
    IF viewMode = "grid" THEN calculateGridDimensions(terminalWidth, Len(files)).columns
    ELSE 1

\* the step of a 'data' event that carries the report of a button at a cell
MouseDelivers(button, x, y) ==
    /\ BrowserInput
    /\ UNCHANGED << terminalWidth, terminalHeight, maxDisplayLines, stdinHandler,
                    world, slider, extras >>
    /\ Survives
    /\ handleMouseEvent(button, x, y)

\* the two cells of the machine's mouse that lie farthest apart
FarCells ==
    LET least(S) == CHOOSE v \in S : \A u \in S : v <= u
        most(S) == CHOOSE v \in S : \A u \in S : v >= u
    IN  { << least(world.xs), least(world.ys) >>, << most(world.xs), most(world.ys) >> }

\* whether the step is one the reports of the two buttons may take, cell by
\* cell: {TRUE} when all may, {FALSE} when none may
WheelAnswers(button, alternative) ==
    { MouseDelivers(b, c[1], c[2]) : b \in {button, alternative}, c \in FarCells }

\* C34: the wheel buttons 64 and 96 are indistinguishable, and so are 65 and
\* 97: from one state, a step that a report of either button may take at
\* one cell is a step that the reports of both buttons may take at cells
\* far apart; the step scrolls up (64, 96) or down (65, 97) by one row, as
\* far as the scroll bound lets it, and is never a click: the entries, the
\* directory, the view mode, the click memory, the gallery and the
\* suspended clicks stay as they are.
C34_WheelButtonsAlike ==
    [][ LET bound == LayoutMaxScrollOffset(viewMode, terminalWidth, maxDisplayLines,
                                           Len(files))
            up == WheelAnswers(64, 96)
            down == WheelAnswers(65, 97)
        IN  /\ up \in {{TRUE}, {FALSE}}
            /\ down \in {{TRUE}, {FALSE}}
            /\ up = {TRUE} => scrollOffset' = Max(0, scrollOffset - RowStep)
            /\ down = {TRUE} => scrollOffset' = Min(bound, scrollOffset + RowStep)
            /\ (up = {TRUE} \/ down = {TRUE})
                => UNCHANGED << currentDirectory, files, viewMode, sinceLastClick,
                                lastClickTarget, activeGallery, pendingClicks,
                                stdinHandler >>
      ]_vars

\* the grid has been scrolled down by one row by the wheel, the selection
\* following into the window
C34_Witness_WheelScrolledGrid ==
    /\ viewMode = "grid" /\ stdinHandler = "browser" /\ running
    /\ RowStep = 2 /\ scrollOffset = 2 /\ selectedIndex = 2
    /\ lastClickTarget = NoTarget

\* C35: a 'data' event that carries a report cut short or an escape sequence
\* the browser knows no key for is ignored: the handler leaves the selection, the scroll offset, the view mode, the
\* entries, the directory and the click memory as they are.
C35_MalformedInputIgnored ==
    [][ \A data \in PartialReports \cup UnknownSequences :
            StdinDelivers(data)
                => UNCHANGED << selectedIndex, scrollOffset, viewMode, files,
                                currentDirectory, sinceLastClick, lastClickTarget,
                                activeGallery, pendingClicks >>
      ]_vars

\* C37: hit testing agrees with the layout: a left press at a cell of the
\* tile or line the renderer drew for an entry selects that entry.
C37_HitTestAgreesWithLayout ==
    [][ \A x \in world.xs, y \in world.ys :
            LET entry == DrawnEntry(x, y)
            IN  (entry.drawn /\ StdinDelivers(FixedReport(0, x, y)))
                    => selectedIndex' = entry.index
      ]_vars

\* C38: in the grid view scrollOffset is a multiple of the number of
\* columns, after every event the browser has handled.
C38_ScrollOffsetRowAligned ==
    viewMode = "grid"
        => scrollOffset % calculateGridDimensions(terminalWidth, Len(files)).columns = 0

\* C36: once the program has been ended by the browser's quit keys, by
\* SIGINT or by q in the gallery, the modes of the terminal are restored:
\* mouse reporting is off, the cursor is visible and raw mode is disabled.
C36_TerminalRestored ==
    (~running /\ lastError # "uncaught")
        => terminal = [rawMode |-> FALSE, mouseReporting |-> FALSE,
                       cursorVisible |-> TRUE]

\* a key handler of the gallery is suspended in its decode
KeyDecodePending ==
    /\ running /\ slider.constructed /\ slider.isNavigating
    /\ \E k \in 1..Len(slider.calls) : slider.calls[k].by = "key"

C40_ResizeUnderGallery ==
    [][ (ResizeNotified /\ activeGallery # NoGallery)
            => /\ \E c \in world.columns, r \in world.rows :
                     /\ terminalWidth' = Max(c, minTerminalWidth)
                     /\ terminalHeight' = Max(r, minTerminalHeight)
               /\ maxDisplayLines' = Max(1, terminalHeight' - footerLines)
               /\ resizeBurst'.renders =
                     IF resizeBurst.age >= resizeDebounce THEN 0
                     ELSE resizeBurst.renders
               /\ lastError' = lastError
               /\ UNCHANGED << files, selectedIndex, scrollOffset, viewMode,
                               currentDirectory, activeGallery >>
               /\ slider.constructed
               /\ Len(slider'.calls) = Len(slider.calls) + 1
               /\ slider'.calls[Len(slider'.calls)].by = "resize"
      ]_vars

\* the terminal has grown under a gallery that shows its image: the browser
\* has the new size and has rendered nothing, the gallery decodes again
C40_Witness_ResizedUnderGallery ==
    /\ running /\ activeGallery # NoGallery /\ activeGallery.phase = "shown"
    /\ terminalHeight = 43 /\ maxDisplayLines = 38
    /\ resizeBurst.events = 1 /\ resizeBurst.renders = 0
    /\ slider.constructed /\ slider.terminalHeight = 43
    /\ Len(slider.calls) = 1 /\ slider.calls[1].by = "resize"

====
